---- MODULE Spec2Model ----
(***************************************************************************)
(* Model of the EOS S3 backend (eoss3): the bucket registry with its two   *)
(* drivers (in-memory, on-disk), the translation backend's bucket and      *)
(* object operations, and the redirect-following HTTP data-plane client.   *)
(*                                                                         *)
(* Requests are served by goroutines of the hosting gateway; a request is  *)
(* a slot of `req` that walks through the shared accesses (registry calls, *)
(* remote calls) of its handler one step at a time.                        *)
(***************************************************************************)
EXTENDS Integers, Sequences, FiniteSets, TLC

\* ------------------------------------------------------------------ bounds

\* Requests the gateway and the operator tools issue in one run.
MaxRequests == 4

\* Entries the in-memory registry may hold in one user's assignment list.
MaxAssign == 2

\* Requests the HTTP client may issue for one transfer (front door + redirects).
MaxHops == 3

\* Largest declared length of an upload, in bytes.
MaxLen == 2

\* Longest path a data-plane URL is composed for.
MaxPathLen == 3

\* ------------------------------------------------------------- value sets

\* Concurrent request slots of the gateway.
Procs == {1, 2}

\* Bucket names used by the requests.
Names == {"b1", "b2"}

\* User ids of the authenticated accounts (0 is the zero value of UserID).
Uids == {0, 1}

\* The value of ctx.Value("account"): an account, or none (ok = FALSE,
\* and the zero auth.Account).
NoAccount == [ok |-> FALSE, UserID |-> 0, GroupID |-> 0]

Accounts == {[ok |-> TRUE, UserID |-> u, GroupID |-> u] : u \in Uids}

Contexts == Accounts \cup {NoAccount}

\* A path of the remote namespace is the sequence of its segments; the empty
\* sequence is the empty string.
EmptyPath == << >>

\* The default bucket path an operator configured for uid u.
HomeOf(u) == <<"eos", ToString(u)>>

\* filepath.Join(dir, name) for a name without separators.
Join(dir, name) == Append(dir, name)

\* Every backing path a bucket of this model can have.
RemotePaths == {Join(HomeOf(u), n) : u \in Uids, n \in Names}

\* The zero value meta.Bucket{}.
NoBucket == [Name |-> "", Path |-> EmptyPath, CreatedAt |-> 0]

\* Prefixes and delimiters of listing requests (strings as character sequences).
Prefixes == {<< >>, <<"a", "/">>, <<"a">>}

Delimiters == {"", "/", ","}

\* --------------------------------------------------------------- the state

VARIABLES
  driver,     \* "memory" | "local": the registry driver in use
  buckets,    \* registry: bucket name -> meta.Bucket (NoBucket: no entry)
  users,      \* in-memory driver: uid -> list of assigned bucket names
  ufiles,     \* on-disk driver: uid -> marker files in the user's folder
  userDirs,   \* on-disk driver: uids whose user folder exists
  paths,      \* uid -> default bucket path (EmptyPath: unset)
  remote,     \* remote namespace: path -> "absent" | "empty" | "nonempty"
              \*   (a container without or with children) | "file"
  now,        \* wall clock
  issued,     \* number of requests issued so far
  req,        \* request slot -> the request being served
  deleted,    \* history: name -> a DeleteBucket succeeded and no create since
  created,    \* history: name -> a backend CreateBucket succeeded, no delete since
  http,       \* the data-plane transfer in progress
  page,       \* the ListBuckets pagination in progress
  twin,       \* an in-memory and an on-disk registry given the same calls
  stream,     \* the metadata listing in progress
  mem         \* one in-memory registry, its lock and the calls made on it

vars == <<driver, buckets, users, ufiles, userDirs, paths, remote, now, issued, req,
          deleted, created, http, page, twin, stream, mem>>

regVars == <<buckets, users, ufiles, userDirs, paths>>

\* The state of the components followed on their own.
sideVars == <<page, twin, stream, mem>>


\* ------------------------------------------------------------ the registry

\* GetBucket of either driver: the entry, or ErrNoSuchBucket with Bucket{}.
\* (The on-disk driver reads back the JSON it wrote: name, path and wall time
\* survive the encoding unchanged.)
GetBucket(name) ==
  IF name \in Names /\ buckets[name] # NoBucket
    THEN [err |-> "nil", bucket |-> buckets[name]]
    ELSE [err |-> "ErrNoSuchBucket", bucket |-> NoBucket]

\* ListBuckets: the in-memory driver returns every entry of the map; the
\* on-disk driver decodes every bucket file and appends none of them.
ListBuckets ==
  IF driver = "memory"
    THEN {buckets[n] : n \in {m \in Names : buckets[m] # NoBucket}}
    ELSE {}

\* The name of a user's folder inside users/ ("" for uid 0: users/ itself).
UserFolderName(uid) == IF uid # 0 THEN ToString(uid) ELSE ""

\* os.ReadDir of the user's folder: its marker files, and for uid 0 (whose
\* folder is users/ itself) also the folders of the other users.
ReadUserDir(uid) ==
  ufiles[uid] \cup
    (IF uid = 0 THEN {UserFolderName(u) : u \in userDirs \ {0}} ELSE {})

\* ListBucketsByUser: the in-memory driver copies the user's list into a
\* slice of length 0, which copies nothing; the on-disk driver lists the
\* user's folder (the metadata file, a separate entry, is skipped).
ListBucketsByUser(uid) ==
  IF driver = "memory"
    THEN {}
    ELSE IF uid \in userDirs THEN ReadUserDir(uid) ELSE {}

\* The (bucket name, uid) assignments the registry holds.
Assigned(uid) ==
  IF driver = "memory"
    THEN {users[uid][i] : i \in 1..Len(users[uid])}
    ELSE ufiles[uid]

\* GetDefaultBucketPath: the in-memory driver reads its paths map, which is
\* never allocated; the on-disk driver reads the user's metadata file.
GetDefaultBucketPath(uid) ==
  IF driver = "memory" THEN EmptyPath ELSE paths[uid]

\* Backend ListBuckets for a non-admin caller: the names assigned to the
\* caller for which GetBucket succeeds.
ListBucketsOfUser(uid) ==
  {n \in ListBucketsByUser(uid) : GetBucket(n).err = "nil"}

\* Backend ListBuckets for an admin caller.
ListBucketsOfAdmin == {b.Name : b \in ListBuckets}

\* slices.DeleteFunc(list, == name)
RECURSIVE DeleteName(_, _)
DeleteName(list, name) ==
  IF list = << >> THEN << >>
  ELSE IF Head(list) = name THEN DeleteName(Tail(list), name)
  ELSE <<Head(list)>> \o DeleteName(Tail(list), name)

\* ------------------------------------------------------------- the requests

BackendOps ==
  {"ListBuckets", "CreateBucket", "DeleteBucket", "PutObject", "HeadObject",
   "GetObject", "ListObjects", "ListObjectsV2", "DeleteObject",
   "GetBucketPolicy"}

RegistryOps ==
  {"RegCreateBucket", "RegDeleteBucket", "AssignBucket", "UnassignBucket"}

\* The first step of each operation's handler.
FirstPc(op) ==
  CASE op = "ListBuckets"     -> "lb_list"
    [] op = "CreateBucket"    -> "cb_get"
    [] op = "DeleteBucket"    -> "db_get"
    [] op = "PutObject"       -> "po_get"
    [] op = "HeadObject"      -> "ho_get"
    [] op = "GetObject"       -> "go_get"
    [] op = "ListObjects"     -> "lo_get"
    [] op = "ListObjectsV2"   -> "l2_get"
    [] op = "DeleteObject"    -> "do_get"
    [] op = "GetBucketPolicy" -> "gp_auth"
    [] op = "RegCreateBucket" -> "rc_check"
    [] op = "RegDeleteBucket" -> "rd_del"
    [] op = "AssignBucket"    -> "as_add"
    [] op = "UnassignBucket"  -> "un_del"

IdleReq ==
  [op |-> "none", name |-> "", ctx |-> NoAccount, uid |-> 0,
   prefix |-> << >>, delimiter |-> "", pc |-> "idle", res |-> "",
   bucket |-> NoBucket, calls |-> {}, out |-> {},
   admin |-> FALSE, tree |-> {}, contents |-> << >>, prefixes |-> << >>,
   snap |-> NoBucket, late |-> FALSE, wrote |-> FALSE, made |-> FALSE,
   kind |-> "none", cut |-> FALSE, steps |-> << >>, body |-> "none"]

\* eos.Auth of the caller.
AuthOf(ctx) == [Uid |-> ctx.UserID, Gid |-> ctx.GroupID]

\* A remote call of kind rpc issued with identity auth.
Call(rpc, auth) == [rpc |-> rpc, Uid |-> auth.Uid, Gid |-> auth.Gid]

Return(p, res) == req' = [req EXCEPT ![p].pc = "done", ![p].res = res]

Goto(p, pc) == req' = [req EXCEPT ![p].pc = pc]

At(p, op, pc) == req[p].op = op /\ req[p].pc = pc


\* ---------------------------------------------------------- initial states

\* A fresh in-memory registry (NewInMemoryBucketStorer), or an on-disk
\* registry opened on its folder (NewLocalBucketStorer): init() makes
\* buckets/ and users/; the folder is durable, and the users' metadata files
\* an operator left there give some users a default bucket path.
InitRegistry ==
  /\ driver \in {"memory", "local"}
  /\ buckets = [n \in Names |-> NoBucket]
  /\ users = [u \in Uids |-> << >>]
  /\ ufiles = [u \in Uids |-> {}]
  /\ paths \in [Uids -> {EmptyPath}] \cup
               (IF driver = "local"
                  THEN {[u \in Uids |-> IF u \in S THEN HomeOf(u) ELSE EmptyPath]
                          : S \in SUBSET Uids}
                  ELSE {})
  /\ userDirs = IF driver = "local"
                  THEN {0} \cup {u \in Uids : paths[u] # EmptyPath}
                  ELSE {}

\* No transfer in progress.
IdleHttp ==
  [pc |-> "idle", verb |-> "", length |-> 0, consumed |-> 0,
   base |-> << >>, auth |-> [Uid |-> 0, Gid |-> 0], path |-> << >>,
   user |-> "",
   cur |-> [url |-> << >>, body |-> FALSE, clen |-> -1, hdrs |-> {}],
   sent |-> << >>,
   res |-> [err |-> "", url |-> << >>, status |-> 0,
            body |-> [from |-> 0, n |-> -1], size |-> -1],
   store |-> [exists |-> FALSE, path |-> << >>, auth |-> [Uid |-> 0, Gid |-> 0],
              data |-> [from |-> 0, n |-> -1], okLen |-> -1]]

InitHttp == http = IdleHttp

\* No ListBuckets call has been paged yet.
IdlePage == [pc |-> "idle", buckets |-> << >>, prefix |-> << >>, max |-> 0,
             pages |-> << >>]

\* NewInMemoryBucketStorer: the maps buckets and users are made, paths is
\* left nil (it has no entry and takes none).
FreshMemory ==
  [buckets |-> [n \in Names |-> NoBucket], users |-> [u \in Uids |-> << >>]]

\* NewLocalBucketStorer on a new folder: init() makes buckets/ and users/,
\* and users/ is the folder of uid 0. files: the bucket files; dirs: the
\* uids whose folder exists; marks: the marker files of each folder; meta:
\* the .metadata file of each folder.
FreshLocal ==
  [files |-> [n \in Names |-> NoBucket],
   dirs |-> {0},
   marks |-> [u \in Uids |-> {}],
   meta |-> [u \in Uids |-> [exists |-> FALSE, path |-> EmptyPath]]]

\* No call has been made on the two registries yet.
NoCall == [op |-> "none", name |-> "", uid |-> 0, path |-> EmptyPath]

FreshTwin ==
  [memory |-> FreshMemory, local |-> FreshLocal, call |-> NoCall,
   res |-> [d \in {"memory", "local"} |-> [err |-> "nil", val |-> ""]],
   absent |-> [d \in {"memory", "local"} |-> FALSE],
   kept |-> [d \in {"memory", "local"} |-> TRUE],
   before |-> [d \in {"memory", "local"} |-> [u \in Uids |-> EmptyPath]]]

\* No listing is in progress.
IdleStream ==
  [pc |-> "idle", entries |-> << >>, fail |-> -1, err |-> "", i |-> 0,
   handed |-> << >>, res |-> "", finds |-> 0, recvs |-> 0]

\* NewInMemoryBucketStorer with no call in progress: the sync.RWMutex m is
\* free (no reader inside, no writer announced), the map buckets is empty.
FreshMem ==
  [readers |-> {}, w |-> 0, buckets |-> {}, count |-> 0, raced |-> FALSE,
   call |-> [p \in Procs |->
               [op |-> "none", name |-> "", pc |-> "idle", seen |-> FALSE,
                res |-> ""]]]

InitSide ==
  /\ page = IdlePage /\ twin = FreshTwin /\ stream = IdleStream
  /\ mem = FreshMem

Init ==
  /\ InitRegistry
  /\ remote = [d \in RemotePaths |-> "absent"]
  /\ now = 0
  /\ issued = 0
  /\ req = [p \in Procs |-> IdleReq]
  /\ deleted = [n \in Names |-> FALSE]
  /\ created = [n \in Names |-> FALSE]
  /\ InitHttp
  /\ InitSide

\* ------------------------------------------------- issuing and finishing

\* The gateway hands a backend operation to slot p.
IssueBackend(p, ops) ==
  /\ req[p].pc = "idle"
  /\ issued < MaxRequests
  /\ issued' = issued + 1
  /\ \E op \in ops, n \in Names, c \in Contexts :
       \E pre \in (IF op \in {"ListObjects", "ListObjectsV2"}
                        THEN Prefixes ELSE {<< >>}),
          del \in (IF op = "ListObjectsV2" THEN Delimiters ELSE {""}),
          adm \in (IF op = "ListBuckets" THEN BOOLEAN ELSE {FALSE}) :
         req' = [req EXCEPT ![p] =
                   [IdleReq EXCEPT !.op = op, !.name = n, !.ctx = c,
                                   !.prefix = pre, !.delimiter = del,
                                   !.admin = adm,
                                   !.pc = FirstPc(op),
                                   !.snap = buckets[n],
                                   !.late = created[n]]]
  /\ UNCHANGED <<driver, regVars, remote, now, deleted, created, http, sideVars>>

\* An operator tool calls the registry directly (createBucketCmd and the
\* like): CreateBucket with a bucket stamped time.Now(), DeleteBucket,
\* AssignBucket, UnassignBucket.
IssueRegistry(p) ==
  /\ req[p].pc = "idle"
  /\ issued < MaxRequests
  /\ issued' = issued + 1
  /\ \E op \in RegistryOps, n \in Names, u \in Uids :
       IF op = "RegCreateBucket"
         THEN /\ now' = now + 1
              /\ req' = [req EXCEPT ![p] =
                   [IdleReq EXCEPT !.op = op, !.name = n, !.uid = u,
                      !.pc = FirstPc(op),
                      !.bucket = [Name |-> n, Path |-> Join(HomeOf(u), n),
                                  CreatedAt |-> now']]]
         ELSE /\ now' = now
              /\ req' = [req EXCEPT ![p] =
                   [IdleReq EXCEPT !.op = op, !.name = n, !.uid = u,
                                   !.pc = FirstPc(op)]]
  /\ UNCHANGED <<driver, regVars, remote, deleted, created, http, sideVars>>

\* The handler has returned; the slot is free again.
Finish(p) ==
  /\ req[p].pc = "done"
  /\ req' = [req EXCEPT ![p] = IdleReq]
  /\ UNCHANGED <<driver, regVars, remote, now, issued, deleted, created, http, sideVars>>


\* ---------------------------------------------- registry calls, step by step

\* Registry CreateBucket, first half: the existence check (in-memory: under
\* the read lock, released before the write; on-disk: GetBucket).
RegistryCreateCheck(p) ==
  /\ req[p].op \in {"CreateBucket", "RegCreateBucket"}
  /\ req[p].pc = "rc_check"
  /\ IF GetBucket(req[p].name).err = "nil"
       THEN Return(p, "ErrBucketAlreadyExisting")
       ELSE Goto(p, "rc_write")
  /\ UNCHANGED <<driver, regVars, remote, now, issued, deleted, created, http, sideVars>>

\* Registry CreateBucket, second half: the write (in-memory: under the write
\* lock; on-disk: os.WriteFile), whatever the entry holds by now.
RegistryCreateWrite(p) ==
  /\ req[p].op \in {"CreateBucket", "RegCreateBucket"}
  /\ req[p].pc = "rc_write"
  /\ buckets' = [buckets EXCEPT ![req[p].name] = req[p].bucket]
  /\ deleted' = [deleted EXCEPT ![req[p].name] = FALSE]
  /\ req' = [req EXCEPT
               ![p].wrote = TRUE,
               ![p].pc = IF req[p].op = "CreateBucket" THEN "cb_mkdir" ELSE "done",
               ![p].res = IF req[p].op = "CreateBucket" THEN "" ELSE "OK"]
  /\ UNCHANGED <<driver, users, ufiles, userDirs, paths, remote, now, issued, created, http, sideVars>>

\* DeleteBucket that leaves the entry in place.
DeleteBucketEntry_Keep(name) == buckets

\* The registry state after DeleteBucket(name): the entry is removed (an
\* absent one is no error); assignments are left alone.
DeleteBucketEntry(name) == [buckets EXCEPT ![name] = NoBucket]

\* Registry DeleteBucket called directly.
RegistryDelete(p) ==
  /\ At(p, "RegDeleteBucket", "rd_del")
  /\ buckets' = DeleteBucketEntry(req[p].name)
  /\ deleted' = [deleted EXCEPT ![req[p].name] = TRUE]
  /\ created' = [created EXCEPT ![req[p].name] = FALSE]
  /\ Return(p, "OK")
  /\ UNCHANGED <<driver, users, ufiles, userDirs, paths, remote, now, issued, http, sideVars>>

\* AssignBucket: the in-memory driver appends the name to the user's list;
\* the on-disk driver makes the user's folder and an empty marker file in it.
\* Neither looks at the bucket entries.
AssignBucket(p) ==
  /\ At(p, "AssignBucket", "as_add")
  /\ LET u == req[p].uid
         n == req[p].name
     IN IF driver = "memory"
          THEN /\ Len(users[u]) < MaxAssign
               /\ users' = [users EXCEPT ![u] = Append(@, n)]
               /\ UNCHANGED <<ufiles, userDirs>>
          ELSE /\ ufiles' = [ufiles EXCEPT ![u] = @ \cup {n}]
               /\ userDirs' = userDirs \cup {u}
               /\ UNCHANGED users
  /\ Return(p, "OK")
  /\ UNCHANGED <<driver, buckets, paths, remote, now, issued, deleted, created, http, sideVars>>

\* UnassignBucket: every occurrence of the name leaves the list; the marker
\* file is removed.
UnassignBucket(p) ==
  /\ At(p, "UnassignBucket", "un_del")
  /\ LET u == req[p].uid
         n == req[p].name
     IN IF driver = "memory"
          THEN /\ users' = [users EXCEPT ![u] = DeleteName(@, n)]
               /\ UNCHANGED ufiles
          ELSE /\ ufiles' = [ufiles EXCEPT ![u] = @ \ {n}]
               /\ UNCHANGED users
  /\ Return(p, "OK")
  /\ UNCHANGED <<driver, buckets, userDirs, paths, remote, now, issued, deleted, created, http, sideVars>>

\* ------------------------------------------------- backend: bucket operations

\* CreateBucket without the lookup of the name: only the caller is checked.
CreateBucketGet_NoCheck(p) ==
  /\ At(p, "CreateBucket", "cb_get")
  /\ IF ~req[p].ctx.ok
       THEN Return(p, "ErrAccessDenied")
       ELSE Goto(p, "cb_path")
  /\ UNCHANGED <<driver, regVars, remote, now, issued, deleted, created, http, sideVars>>

\* CreateBucket: the name must be free, then the caller must be known.
CreateBucketGet(p) ==
  /\ At(p, "CreateBucket", "cb_get")
  /\ IF GetBucket(req[p].name).err = "nil"
       THEN Return(p, "ErrBucketAlreadyExists")
       ELSE IF ~req[p].ctx.ok
              THEN Return(p, "ErrAccessDenied")
              ELSE Goto(p, "cb_path")
  /\ UNCHANGED <<driver, regVars, remote, now, issued, deleted, created, http, sideVars>>

\* CreateBucket falling back to the caller's home when no default path is
\* set.
CreateBucketPath_Fallback(p) ==
  /\ At(p, "CreateBucket", "cb_path")
  /\ LET stored == GetDefaultBucketPath(req[p].ctx.UserID)
         defaultPath == IF stored = EmptyPath THEN HomeOf(req[p].ctx.UserID)
                        ELSE stored
     IN /\ now' = now + 1
        /\ req' = [req EXCEPT
             ![p].pc = "rc_check",
             ![p].bucket = [Name |-> req[p].name,
                            Path |-> Join(defaultPath, req[p].name),
                            CreatedAt |-> now']]
  /\ UNCHANGED <<driver, regVars, remote, issued, deleted, created, http, sideVars>>

\* CreateBucket: the caller's default path, the backing path, the entry to
\* write (stamped time.Now()).
CreateBucketPath(p) ==
  /\ At(p, "CreateBucket", "cb_path")
  /\ LET defaultPath == GetDefaultBucketPath(req[p].ctx.UserID)
     IN IF defaultPath = EmptyPath
          THEN Return(p, "ErrInvalidQueryParams") /\ now' = now
          ELSE /\ now' = now + 1
               /\ req' = [req EXCEPT
                    ![p].pc = "rc_check",
                    ![p].bucket = [Name |-> req[p].name,
                                   Path |-> Join(defaultPath, req[p].name),
                                   CreatedAt |-> now']]
  /\ UNCHANGED <<driver, regVars, remote, issued, deleted, created, http, sideVars>>

\* CreateBucket: the remote mkdir of the backing path, as the caller. Its
\* error is returned as it is; the registry is not touched again.
CreateBucketMkdir(p) ==
  /\ At(p, "CreateBucket", "cb_mkdir")
  /\ LET path == req[p].bucket.Path
         call == Call("Mkdir", AuthOf(req[p].ctx))
     IN \E ok \in BOOLEAN :
          IF ok /\ remote[path] # "file"
            THEN /\ remote' = [remote EXCEPT ![path] =
                                 IF @ = "absent" THEN "empty" ELSE @]
                 /\ created' = [created EXCEPT ![req[p].name] = TRUE]
                 /\ req' = [req EXCEPT ![p].pc = "done", ![p].res = "OK",
                                       ![p].made = (remote[path] = "absent"),
                                       ![p].calls = @ \cup {call}]
            ELSE /\ UNCHANGED <<remote, created>>
                 /\ req' = [req EXCEPT ![p].pc = "done", ![p].res = "ErrRemote",
                                       ![p].calls = @ \cup {call}]
  /\ UNCHANGED <<driver, regVars, now, issued, deleted, http, sideVars>>

\* DeleteBucket: the caller must be known, then the bucket must be registered.
DeleteBucketGet(p) ==
  /\ At(p, "DeleteBucket", "db_get")
  /\ IF ~req[p].ctx.ok
       THEN Return(p, "ErrAccessDenied")
       ELSE IF GetBucket(req[p].name).err # "nil"
              THEN Return(p, GetBucket(req[p].name).err)
              ELSE req' = [req EXCEPT ![p].pc = "db_stat",
                                      ![p].bucket = GetBucket(req[p].name).bucket]
  /\ UNCHANGED <<driver, regVars, remote, now, issued, deleted, created, http, sideVars>>

\* What the metadata stream of a Stat does: it delivers the answer of the
\* server, it cannot be opened, or Recv fails because the call was cancelled
\* while in flight or because the connection broke.
StatOutcomes == {"answer", "refused", "canceled", "broken"}

\* Client.Stat on a path that is present or not: the error of opening the
\* stream is returned as it is, every error of Recv is ErrNoSuchResource.
Stat(outcome, present) ==
  IF outcome = "refused" THEN "ErrRemote"
  ELSE IF outcome # "answer" \/ ~present THEN "ErrNoSuchResource"
  ELSE "nil"

\* DeleteBucket going on to the rmdir whatever the stat has found.
DeleteBucketStat_NoCheck(p) ==
  /\ At(p, "DeleteBucket", "db_stat")
  /\ LET path == req[p].bucket.Path
         call == Call("Stat", AuthOf(req[p].ctx))
     IN \E outcome \in StatOutcomes :
          LET err == Stat(outcome, remote[path] # "absent")
          IN  req' = [req EXCEPT
                        ![p].calls = @ \cup {call},
                        ![p].kind = IF outcome = "answer" THEN remote[path]
                                    ELSE "none",
                        ![p].cut = (outcome = "canceled"),
                        ![p].pc = IF err = "nil" THEN "db_rmdir" ELSE "done",
                        ![p].res = IF err = "nil" THEN "" ELSE err]
  /\ UNCHANGED <<driver, regVars, remote, now, issued, deleted, created, http, sideVars>>

\* DeleteBucket: stat of the backing path. A node that is not a container is
\* an internal error, a container with children is BucketNotEmpty; only an
\* empty container goes on to the rmdir.
DeleteBucketStat(p) ==
  /\ At(p, "DeleteBucket", "db_stat")
  /\ LET path == req[p].bucket.Path
         call == Call("Stat", AuthOf(req[p].ctx))
     IN \E outcome \in StatOutcomes :
          LET err == Stat(outcome, remote[path] # "absent")
              res == IF err # "nil" THEN err
                     ELSE IF remote[path] = "file" THEN "ErrInternalError"
                     ELSE IF remote[path] = "nonempty" THEN "ErrBucketNotEmpty"
                     ELSE ""
          IN  req' = [req EXCEPT
                        ![p].calls = @ \cup {call},
                        ![p].kind = IF outcome = "answer" THEN remote[path]
                                    ELSE "none",
                        ![p].cut = (outcome = "canceled"),
                        ![p].pc = IF res = "" THEN "db_rmdir" ELSE "done",
                        ![p].res = res]
  /\ UNCHANGED <<driver, regVars, remote, now, issued, deleted, created, http, sideVars>>

\* DeleteBucket dropping the error of the rmdir and removing the entry anyway.
DeleteBucketRmdir_ErrorDropped(p) ==
  /\ At(p, "DeleteBucket", "db_rmdir")
  /\ LET path == req[p].bucket.Path
         call == Call("Rmdir", AuthOf(req[p].ctx))
     IN \E ok \in BOOLEAN :
          /\ remote' = IF ok /\ remote[path] = "empty"
                         THEN [remote EXCEPT ![path] = "absent"] ELSE remote
          /\ req' = [req EXCEPT ![p].pc = "db_del",
                                ![p].calls = @ \cup {call}]
  /\ UNCHANGED <<driver, regVars, now, issued, deleted, created, http, sideVars>>

\* DeleteBucket: rmdir of the backing path; it fails on a directory that is
\* gone or has children by now, or on any remote error.
DeleteBucketRmdir(p) ==
  /\ At(p, "DeleteBucket", "db_rmdir")
  /\ LET path == req[p].bucket.Path
         call == Call("Rmdir", AuthOf(req[p].ctx))
     IN \E ok \in BOOLEAN :
          IF ok /\ remote[path] = "empty"
            THEN /\ remote' = [remote EXCEPT ![path] = "absent"]
                 /\ req' = [req EXCEPT ![p].pc = "db_del",
                                       ![p].calls = @ \cup {call}]
            ELSE /\ remote' = remote
                 /\ req' = [req EXCEPT ![p].pc = "done", ![p].res = "ErrRemote",
                                       ![p].calls = @ \cup {call}]
  /\ UNCHANGED <<driver, regVars, now, issued, deleted, created, http, sideVars>>

\* DeleteBucket: the registry entry goes last.
DeleteBucketEntryStep(p) ==
  /\ At(p, "DeleteBucket", "db_del")
  /\ buckets' = DeleteBucketEntry(req[p].name)
  /\ deleted' = [deleted EXCEPT ![req[p].name] = TRUE]
  /\ created' = [created EXCEPT ![req[p].name] = FALSE]
  /\ Return(p, "OK")
  /\ UNCHANGED <<driver, users, ufiles, userDirs, paths, remote, now, issued, http, sideVars>>

\* ListBuckets: for an admin (input.IsAdmin) what the registry's ListBuckets
\* returns; for any other caller the caller's assigned names, each resolved
\* with GetBucket (the unresolved ones are dropped).
ListBucketsStep(p) ==
  /\ At(p, "ListBuckets", "lb_list")
  /\ IF req[p].admin
       THEN req' = [req EXCEPT ![p].pc = "done", ![p].res = "OK",
                               ![p].out = ListBucketsOfAdmin]
       ELSE IF ~req[p].ctx.ok
         THEN Return(p, "ErrNoUserInRequest")
         ELSE req' = [req EXCEPT ![p].pc = "done", ![p].res = "OK",
                                 ![p].out = ListBucketsOfUser(req[p].ctx.UserID)]
  /\ UNCHANGED <<driver, regVars, remote, now, issued, deleted, created, http, sideVars>>


\* ------------------------------------------- the remote namespace, listings

\* The entries a bucket directory may hold, by their path below it (a
\* sequence of names): a directory "a" with files "x" and "y", a file "b", the
\* version folder of "b" with one version, and an atomic-upload file.
Node(path, dir) == [path |-> path, dir |-> dir]

TreeNodes ==
  {Node(<<"a">>, TRUE), Node(<<"a", "x">>, FALSE), Node(<<"a", "y">>, FALSE),
   Node(<<"b">>, FALSE),
   Node(<<".sys.v#.b">>, TRUE), Node(<<".sys.v#.b", "v1">>, FALSE),
   Node(<<".sys.a#.t">>, FALSE)}

\* The directory of entry n.
Parent(n) == SubSeq(n.path, 1, Len(n.path) - 1)

\* The contents a bucket directory may have: every entry lies in a directory
\* of the tree.
Trees ==
  {t \in SUBSET TreeNodes :
     \A n \in t : Len(n.path) > 1 => Node(Parent(n), TRUE) \in t}

\* The names that contain ".sys.v#." and those that contain ".sys.a#".
VersionNames == {".sys.v#.b"}

AtomicNames == {".sys.a#.t"}

\* eos.IsVersionFolder(path): strings.Contains(path, ".sys.v#.").
IsVersionFolder(key) == \E i \in 1..Len(key) : key[i] \in VersionNames

\* eos.IsAtomicFile(path): strings.Contains(path, ".sys.a#").
IsAtomicFile(key) == \E i \in 1..Len(key) : key[i] \in AtomicNames

\* isHiddenResource that knows version folders only.
isHiddenResource_VersionOnly(key) == IsVersionFolder(key)

isHiddenResource(key) == IsVersionFolder(key) \/ IsAtomicFile(key)

\* The names of a string of names and '/': what path.Join keeps of it.
Segments(s) == SelectSeq(s, LAMBDA c : c # "/")

\* The names of a path joined with '/'.
RECURSIVE JoinSlash(_)
JoinSlash(segs) ==
  IF segs = << >> THEN << >>
  ELSE IF Len(segs) = 1 THEN segs
  ELSE <<Head(segs), "/">> \o JoinSlash(Tail(segs))

\* filepath.Rel(base, path) for a path below base.
Rel(base, path) == JoinSlash(SubSeq(path, Len(base) + 1, Len(path)))

\* mdResponseToS3Object(bucketDir, md): the key of the entry relative to the
\* bucket directory, with a trailing '/' for a container.
mdResponseToS3Object(bucketDir, md) ==
  [Key |-> IF md.dir THEN Rel(bucketDir, md.path) \o <<"/">>
           ELSE Rel(bucketDir, md.path),
   dir |-> md.dir]

\* filepath.Split(prefix): up to and including the last '/', and the rest.
RECURSIVE LastSlash(_)
LastSlash(s) ==
  IF s = << >> THEN 0
  ELSE IF s[Len(s)] = "/" THEN Len(s)
  ELSE LastSlash(SubSeq(s, 1, Len(s) - 1))

Split(s) ==
  [dir |-> SubSeq(s, 1, LastSlash(s)),
   file |-> SubSeq(s, LastSlash(s) + 1, Len(s))]

\* retrieveObjectDirectory(bucketPath, prefix).
retrieveObjectDirectory(bucketPath, prefix) ==
  [objdir |-> bucketPath \o Segments(Split(prefix).dir),
   newprefix |-> Split(prefix).file]

\* A set as a sequence, in some order.
RECURSIVE SeqOf(_)
SeqOf(S) ==
  IF S = {} THEN << >>
  ELSE LET x == CHOOSE y \in S : TRUE IN <<x>> \o SeqOf(S \ {x})

\* The entries of the tree of the bucket directory bucketPath, with their
\* full paths.
Absolute(bucketPath, tree) ==
  {Node(bucketPath \o n.path, n.dir) : n \in tree}
    \cup {Node(bucketPath, TRUE)}

\* p is a proper extension of dir.
Below(dir, p) == Len(p) > Len(dir) /\ SubSeq(p, 1, Len(dir)) = dir

\* The stream Find answers for a listing of dir to depth 1: the directory
\* itself, then its entries.
Find(nodes, dir) ==
  <<Node(dir, TRUE)>>
    \o SeqOf({n \in nodes : Below(dir, n.path) /\ Len(n.path) = Len(dir) + 1})

\* The stream Find answers for a recursive listing of dir: the directory
\* itself, then every entry below it.
FindRecursive(nodes, dir) ==
  <<Node(dir, TRUE)>> \o SeqOf({n \in nodes : Below(dir, n.path)})

\* ListDir without the skip of the first entry.
ListDir_NoSkip(nodes, dir, recursive) ==
  IF recursive THEN FindRecursive(nodes, dir) ELSE Find(nodes, dir)

\* ListDir(dir, f, filters): the entries handed to f, the first received
\* entry (the directory itself) skipped.
ListDir(nodes, dir, recursive) ==
  Tail(IF recursive THEN FindRecursive(nodes, dir) ELSE Find(nodes, dir))

\* The result of a listing so far: Contents and CommonPrefixes, by key.
NoListing == [objects |-> << >>, prefixes |-> << >>]

\* s holds x.
InSeq(s, x) == \E i \in 1..Len(s) : s[i] = x

\* appendObjects of ListObjectsV2 that puts directories among the objects.
appendObjectsV2_NoGrouping(acc, bucketDir, delimiter, md) ==
  LET obj == mdResponseToS3Object(bucketDir, md)
  IN IF isHiddenResource(obj.Key) THEN acc
     ELSE [acc EXCEPT !.objects = Append(@, obj.Key)]

\* appendObjects of ListObjectsV2, called for one entry of the listing.
appendObjectsV2(acc, bucketDir, delimiter, md) ==
  LET obj == mdResponseToS3Object(bucketDir, md)
  IN IF isHiddenResource(obj.Key) THEN acc
     ELSE IF delimiter = "/" /\ md.dir
       THEN IF InSeq(acc.prefixes, obj.Key) THEN acc
            ELSE [acc EXCEPT !.prefixes = Append(@, obj.Key)]
     ELSE IF ~md.dir THEN [acc EXCEPT !.objects = Append(@, obj.Key)]
     ELSE acc

\* appendObjects of ListObjects, called for one entry of the listing.
appendObjectsV1(acc, bucketDir, md) ==
  LET obj == mdResponseToS3Object(bucketDir, md)
  IN IF isHiddenResource(obj.Key) THEN acc
     ELSE [acc EXCEPT !.objects = Append(@, obj.Key)]

\* The callback of ListObjectsV2 run over the entries ListDir hands out.
RECURSIVE CollectV2(_, _, _, _)
CollectV2(entries, acc, bucketDir, delimiter) ==
  IF entries = << >> THEN acc
  ELSE CollectV2(Tail(entries),
                 appendObjectsV2(acc, bucketDir, delimiter, Head(entries)),
                 bucketDir, delimiter)

\* The callback of ListObjects run over the entries ListDir hands out.
RECURSIVE CollectV1(_, _, _)
CollectV1(entries, acc, bucketDir) ==
  IF entries = << >> THEN acc
  ELSE CollectV1(Tail(entries), appendObjectsV1(acc, bucketDir, Head(entries)),
                 bucketDir)

\* What the directory of a bucket may hold when it is listed.
TreesAt(path) ==
  IF remote[path] = "nonempty" THEN Trees \ {{}} ELSE {{}}

\* The remote listing of directory dir of the bucket at path, as ListObjects
\* or ListObjectsV2 issue it: it fails when the call fails or dir is no
\* directory; else the callback has collected the result.
ListStep(p, op, pc, auth, dir, v2) ==
  /\ At(p, op, pc)
  /\ LET path == req[p].bucket.Path
     IN \E ok \in BOOLEAN, tree \in TreesAt(path) :
          LET nodes == Absolute(path, tree)
              recursive == v2 /\ req[p].delimiter = ""
              entries == ListDir(nodes, dir, recursive)
              listed == /\ ok
                        /\ remote[path] \in {"empty", "nonempty"}
                        /\ Node(dir, TRUE) \in nodes
              result == IF v2 THEN CollectV2(entries, NoListing, path,
                                             req[p].delimiter)
                        ELSE CollectV1(entries, NoListing, path)
          IN req' = [req EXCEPT
                       ![p].pc = "done",
                       ![p].calls = @ \cup {Call("ListDir", auth)},
                       ![p].tree = IF listed THEN tree ELSE {},
                       ![p].res = IF listed THEN "OK" ELSE "ErrRemote",
                       ![p].contents = IF listed THEN result.objects ELSE << >>,
                       ![p].prefixes = IF listed THEN result.prefixes ELSE << >>]
  /\ UNCHANGED <<driver, regVars, remote, now, issued, deleted, created, http, sideVars>>

\* ------------------------------------------------- backend: object operations

\* The object operations that look the bucket up first and the caller second
\* (PutObject, HeadObject, ListObjects, DeleteObject).
LookupThenAuth(p, op, pc, next) ==
  /\ At(p, op, pc)
  /\ IF GetBucket(req[p].name).err # "nil"
       THEN Return(p, GetBucket(req[p].name).err)
       ELSE IF ~req[p].ctx.ok
              THEN Return(p, "ErrAccessDenied")
              ELSE req' = [req EXCEPT ![p].pc = next,
                                      ![p].bucket = GetBucket(req[p].name).bucket]
  /\ UNCHANGED <<driver, regVars, remote, now, issued, deleted, created, http, sideVars>>

PutObjectGet(p) == LookupThenAuth(p, "PutObject", "po_get", "po_upload")

HeadObjectGet(p) == LookupThenAuth(p, "HeadObject", "ho_get", "ho_stat")

ListObjectsGet(p) == LookupThenAuth(p, "ListObjects", "lo_get", "lo_list")

DeleteObjectGet(p) == LookupThenAuth(p, "DeleteObject", "do_get", "do_rm")

\* GetObject: the caller first, the bucket second.
GetObjectGet(p) ==
  /\ At(p, "GetObject", "go_get")
  /\ IF ~req[p].ctx.ok
       THEN Return(p, "ErrAccessDenied")
       ELSE IF GetBucket(req[p].name).err # "nil"
              THEN Return(p, GetBucket(req[p].name).err)
              ELSE req' = [req EXCEPT ![p].pc = "go_download",
                                      ![p].bucket = GetBucket(req[p].name).bucket]
  /\ UNCHANGED <<driver, regVars, remote, now, issued, deleted, created, http, sideVars>>

\* ListObjectsV2 that looks the bucket up before it checks the shape.
ListObjectsV2Get_LookupFirst(p) ==
  /\ At(p, "ListObjectsV2", "l2_get")
  /\ LET prefix == req[p].prefix
         delimiter == req[p].delimiter
     IN IF GetBucket(req[p].name).err # "nil"
          THEN Return(p, GetBucket(req[p].name).err)
          ELSE IF delimiter # "" /\ delimiter # "/"
                 THEN Return(p, "ErrInvalidRequest")
                 ELSE IF prefix # << >> /\ prefix[Len(prefix)] # "/"
                        THEN Return(p, "ErrInvalidRequest")
                        ELSE req' = [req EXCEPT ![p].pc = "l2_list",
                                       ![p].bucket = GetBucket(req[p].name).bucket]
  /\ UNCHANGED <<driver, regVars, remote, now, issued, deleted, created, http, sideVars>>

\* ListObjectsV2: the request shape (delimiter "" or "/", prefix empty or
\* ending in "/"), then the bucket. The caller is not checked.
ListObjectsV2Get(p) ==
  /\ At(p, "ListObjectsV2", "l2_get")
  /\ LET prefix == req[p].prefix
         delimiter == req[p].delimiter
     IN IF delimiter # "" /\ delimiter # "/"
          THEN Return(p, "ErrInvalidRequest")
          ELSE IF prefix # << >> /\ prefix[Len(prefix)] # "/"
                 THEN Return(p, "ErrInvalidRequest")
                 ELSE IF GetBucket(req[p].name).err # "nil"
                        THEN Return(p, GetBucket(req[p].name).err)
                        ELSE req' = [req EXCEPT ![p].pc = "l2_list",
                                       ![p].bucket = GetBucket(req[p].name).bucket]
  /\ UNCHANGED <<driver, regVars, remote, now, issued, deleted, created, http, sideVars>>

\* GetBucketPolicy: the caller must be known; the policy is then generated
\* locally.
GetBucketPolicyStep(p) ==
  /\ At(p, "GetBucketPolicy", "gp_auth")
  /\ IF ~req[p].ctx.ok
       THEN Return(p, "ErrAccessDenied")
       ELSE Return(p, "OK")
  /\ UNCHANGED <<driver, regVars, remote, now, issued, deleted, created, http, sideVars>>

\* eosAuthFromLoggedUser: the account's ids, the zero account's when the
\* context holds none.
eosAuthFromLoggedUser(ctx) == [Uid |-> ctx.UserID, Gid |-> ctx.GroupID]

\* The one remote call of an object operation, issued with identity auth.
\* The object of the model is the file "k" of the bucket's directory.
RemoteStep(p, op, pc, rpc, auth) ==
  /\ At(p, op, pc)
  /\ LET path == req[p].bucket.Path
         call == Call(rpc, auth)
     IN \E ok \in BOOLEAN :
          /\ req' = [req EXCEPT
               ![p].pc = "done",
               ![p].calls = @ \cup {call},
               ![p].res =
                 IF ~ok THEN "ErrRemote"
                 ELSE CASE rpc = "Upload" ->
                             IF remote[path] \in {"empty", "nonempty"} THEN "OK"
                             ELSE "ErrRemote"
                        [] rpc = "Remove" ->
                             IF remote[path] = "nonempty" THEN "OK" ELSE "ErrRemote"]
          /\ remote' =
               IF ok /\ rpc = "Upload" /\ remote[path] \in {"empty", "nonempty"}
                 THEN [remote EXCEPT ![path] = "nonempty"]
               ELSE IF ok /\ rpc = "Remove" /\ remote[path] = "nonempty"
                 THEN [remote EXCEPT ![path] = "empty"]
               ELSE remote
  /\ UNCHANGED <<driver, regVars, now, issued, deleted, created, http, sideVars>>

PutObjectUpload(p) ==
  RemoteStep(p, "PutObject", "po_upload", "Upload", AuthOf(req[p].ctx))

\* What the remote node at the bucket path joined with the key can be: a
\* file, a file whose stat answer carries no file metadata, a container, or
\* nothing; only a bucket directory with children has a node there.
NodeKinds(path) ==
  IF remote[path] = "nonempty" THEN {"file", "nofmd", "container", "absent"}
  ELSE {"absent"}

\* HeadObject: the stat of the object path; whatever is not a file with its
\* metadata is NoSuchKey, an error of the stat is returned as it is.
HeadObjectStat(p) ==
  /\ At(p, "HeadObject", "ho_stat")
  /\ \E outcome \in StatOutcomes, node \in NodeKinds(req[p].bucket.Path) :
       LET err == Stat(outcome, node # "absent")
       IN  req' = [req EXCEPT
                     ![p].pc = "done",
                     ![p].calls = @ \cup {Call("Stat", AuthOf(req[p].ctx))},
                     ![p].kind = IF outcome = "answer" THEN node ELSE "none",
                     ![p].cut = (outcome = "canceled"),
                     ![p].res = IF err # "nil" THEN err
                                ELSE IF node # "file" THEN "ErrNoSuchKey"
                                ELSE "OK"]
  /\ UNCHANGED <<driver, regVars, remote, now, issued, deleted, created, http, sideVars>>

\* The answers of the data plane to the GET of a node: 200 with or without
\* a Content-Length (size -1) for a file, the same or another status for a
\* container, another status for nothing.
DownloadAnswers(node) ==
  (IF node # "absent" THEN [ok : {TRUE}, size : {-1, 1}] ELSE {})
    \cup (IF node \in {"container", "absent"}
            THEN {[ok |-> FALSE, size |-> 0]} ELSE {})

\* GetObject: the download of the object path. Its error is returned as it
\* is; a body whose length is known is returned at once, and only a body of
\* unknown length leads to a stat. body: the response body is not there
\* ("none"), held open by GetObject ("open"), closed ("closed") or given to
\* the caller with the output ("handed").
GetObjectDownload(p) ==
  /\ At(p, "GetObject", "go_download")
  /\ \E outcome \in {"answer", "refused", "canceled"},
        node \in NodeKinds(req[p].bucket.Path) :
       \E a \in DownloadAnswers(node) :
         req' = [req EXCEPT
                   ![p].calls = @ \cup {Call("Download", AuthOf(req[p].ctx))},
                   ![p].kind = IF outcome = "answer" THEN node ELSE "none",
                   ![p].cut = (outcome = "canceled"),
                   ![p].body = IF outcome # "answer" \/ ~a.ok THEN "none"
                               ELSE IF a.size < 0 THEN "open" ELSE "handed",
                   ![p].pc = IF outcome = "answer" /\ a.ok /\ a.size < 0
                               THEN "go_stat" ELSE "done",
                   ![p].res = IF outcome = "canceled" THEN "ErrCanceled"
                              ELSE IF outcome = "refused" \/ ~a.ok
                                THEN "ErrRemote"
                              ELSE IF a.size < 0 THEN "" ELSE "OK"]
  /\ UNCHANGED <<driver, regVars, remote, now, issued, deleted, created, http, sideVars>>

\* GetObject: the stat that follows a download of unknown length. A node that
\* is not a file is NoSuchKey; the size is read from the file metadata, which
\* is a nil dereference when the answer carries none. The body Download has
\* opened goes to the caller with the output; no other return touches it.
GetObjectStat(p) ==
  /\ At(p, "GetObject", "go_stat")
  /\ \E outcome \in StatOutcomes :
       LET node == req[p].kind
           err == Stat(outcome, node # "absent")
       IN  req' = [req EXCEPT
                     ![p].pc = "done",
                     ![p].calls = @ \cup {Call("Stat", AuthOf(req[p].ctx))},
                     ![p].kind = IF outcome = "answer" THEN node ELSE "none",
                     ![p].cut = (outcome = "canceled"),
                     ![p].body = IF err = "nil" /\ node = "file" THEN "handed"
                                 ELSE @,
                     ![p].res = IF err # "nil" THEN err
                                ELSE IF node = "container" THEN "ErrNoSuchKey"
                                ELSE IF node = "nofmd" THEN "panic"
                                ELSE "OK"]
  /\ UNCHANGED <<driver, regVars, remote, now, issued, deleted, created, http, sideVars>>

\* ListObjects: the listing directory is the bucket path joined with the
\* prefix up to its last '/'; the rest of the prefix (fileprefix) is not
\* made a filter of the listing.
ListObjectsList(p) ==
  ListStep(p, "ListObjects", "lo_list", AuthOf(req[p].ctx),
           retrieveObjectDirectory(req[p].bucket.Path, req[p].prefix).objdir,
           FALSE)

\* ListObjectsV2: the listing directory is path.Join(bucket.Path, prefix);
\* the listing is recursive when there is no delimiter.
ListObjectsV2List(p) ==
  ListStep(p, "ListObjectsV2", "l2_list", eosAuthFromLoggedUser(req[p].ctx),
           req[p].bucket.Path \o Segments(req[p].prefix), TRUE)

DeleteObjectRemove(p) ==
  RemoteStep(p, "DeleteObject", "do_rm", "Remove", AuthOf(req[p].ctx))

\* ------------------------------------------------------- the specifications

\* A step of a registry call, made by a backend handler or by a direct caller.
RegistryStep(p) ==
  \/ RegistryCreateCheck(p)
  \/ RegistryCreateWrite(p)

\* A step of a direct registry caller.
DirectStep(p) ==
  \/ RegistryDelete(p)
  \/ AssignBucket(p)
  \/ UnassignBucket(p)

\* A step of a bucket operation of the backend.
BucketStep(p) ==
  \/ CreateBucketGet(p)
  \/ CreateBucketPath(p)
  \/ CreateBucketMkdir(p)
  \/ DeleteBucketGet(p)
  \/ DeleteBucketStat(p)
  \/ DeleteBucketRmdir(p)
  \/ DeleteBucketEntryStep(p)
  \/ ListBucketsStep(p)

\* A step of an object operation of the backend.
ObjectStep(p) ==
  \/ PutObjectGet(p)
  \/ PutObjectUpload(p)
  \/ HeadObjectGet(p)
  \/ HeadObjectStat(p)
  \/ GetObjectGet(p)
  \/ GetObjectDownload(p)
  \/ GetObjectStat(p)
  \/ ListObjectsGet(p)
  \/ ListObjectsList(p)
  \/ ListObjectsV2Get(p)
  \/ ListObjectsV2List(p)
  \/ DeleteObjectGet(p)
  \/ DeleteObjectRemove(p)
  \/ GetBucketPolicyStep(p)

\* No handler is running.
Quiet == \A q \in Procs : req[q].pc = "idle"

\* The slot the next request is given: the lowest free one.
FreeSlot(p) ==
  /\ req[p].pc = "idle"
  /\ \A q \in Procs : req[q].pc = "idle" => p <= q

\* The backend and the operator tools, one request after the other: a
\* request is issued when the previous one has returned.
Next ==
  \E p \in Procs :
    \/ Quiet /\ FreeSlot(p) /\ IssueBackend(p, BackendOps)
    \/ Quiet /\ FreeSlot(p) /\ IssueRegistry(p)
    \/ RegistryStep(p)
    \/ DirectStep(p)
    \/ BucketStep(p)
    \/ ObjectStep(p)
    \/ Finish(p)

Spec == Init /\ [][Next]_vars

\* The requests that fill a bucket and list it.
ListingOps == {"CreateBucket", "PutObject", "ListObjects", "ListObjectsV2"}

NextList ==
  \E p \in Procs :
    \/ Quiet /\ FreeSlot(p) /\ IssueBackend(p, ListingOps)
    \/ CreateBucketGet(p) \/ CreateBucketPath(p)
    \/ RegistryCreateCheck(p) \/ RegistryCreateWrite(p)
    \/ CreateBucketMkdir(p)
    \/ PutObjectGet(p) \/ PutObjectUpload(p)
    \/ ListObjectsGet(p) \/ ListObjectsList(p)
    \/ ListObjectsV2Get(p) \/ ListObjectsV2List(p)
    \/ Finish(p)

SpecList == Init /\ [][NextList]_vars

\* Another client of the shared namespace puts a file where no directory or
\* an empty one was.
RemoteReplace ==
  /\ \E path \in RemotePaths :
       /\ remote[path] \in {"absent", "empty"}
       /\ remote' = [remote EXCEPT ![path] = "file"]
  /\ UNCHANGED <<driver, regVars, now, issued, req, deleted, created, http,
                 sideVars>>

\* The requests that make, fill and remove a bucket.
RemovalOps == {"CreateBucket", "PutObject", "DeleteBucket"}

\* Buckets made, filled and removed on a namespace other clients write to.
NextDel ==
  \/ \E p \in Procs :
       \/ Quiet /\ FreeSlot(p) /\ IssueBackend(p, RemovalOps)
       \/ CreateBucketGet(p) \/ CreateBucketPath(p)
       \/ RegistryCreateCheck(p) \/ RegistryCreateWrite(p)
       \/ CreateBucketMkdir(p)
       \/ PutObjectGet(p) \/ PutObjectUpload(p)
       \/ DeleteBucketGet(p) \/ DeleteBucketStat(p)
       \/ DeleteBucketRmdir(p) \/ DeleteBucketEntryStep(p)
       \/ Finish(p)
  \/ Quiet /\ RemoteReplace

SpecDel == Init /\ [][NextDel]_vars

\* The create-bucket command of the operator tool is started for bucket n
\* and owner u: the bucket is stamped time.Now().
CliIssue(p) ==
  /\ req[p].pc = "idle"
  /\ issued < MaxRequests
  /\ issued' = issued + 1
  /\ now' = now + 1
  /\ \E n \in Names, u \in Uids :
       req' = [req EXCEPT ![p] =
                 [IdleReq EXCEPT !.op = "create-bucket", !.name = n, !.uid = u,
                    !.pc = "cc_create", !.snap = buckets[n],
                    !.bucket = [Name |-> n, Path |-> Join(HomeOf(u), n),
                                CreatedAt |-> now']]]
  /\ UNCHANGED <<driver, regVars, remote, deleted, created, http, sideVars>>

\* create-bucket: the registry's CreateBucket; its error ends the command.
CliCreate(p) ==
  /\ At(p, "create-bucket", "cc_create")
  /\ IF GetBucket(req[p].name).err = "nil"
       THEN /\ req' = [req EXCEPT ![p].pc = "done",
                                  ![p].res = "ErrBucketAlreadyExisting",
                                  ![p].steps = Append(@, "CreateBucket")]
            /\ UNCHANGED buckets
       ELSE /\ buckets' = [buckets EXCEPT ![req[p].name] = req[p].bucket]
            /\ req' = [req EXCEPT ![p].pc = "cc_assign", ![p].wrote = TRUE,
                                  ![p].steps = Append(@, "CreateBucket")]
  /\ UNCHANGED <<driver, users, ufiles, userDirs, paths, remote, now, issued,
                 deleted, created, http, sideVars>>

\* create-bucket: AssignBucket for the owner. The in-memory driver cannot
\* fail; the on-disk driver fails when it cannot make the user's folder or,
\* the folder made, the marker file. On failure the entry is deleted and the
\* error of AssignBucket returned.
CliAssign(p) ==
  /\ At(p, "create-bucket", "cc_assign")
  /\ LET u == req[p].uid
         n == req[p].name
     IN \E ok \in (IF driver = "memory" THEN {TRUE} ELSE BOOLEAN),
           dir \in BOOLEAN :
          IF ok
            THEN /\ IF driver = "memory"
                      THEN /\ Len(users[u]) < MaxAssign
                           /\ users' = [users EXCEPT ![u] = Append(@, n)]
                           /\ UNCHANGED <<ufiles, userDirs>>
                      ELSE /\ ufiles' = [ufiles EXCEPT ![u] = @ \cup {n}]
                           /\ userDirs' = userDirs \cup {u}
                           /\ UNCHANGED users
                 /\ UNCHANGED buckets
                 /\ req' = [req EXCEPT ![p].pc = "cc_mkdir",
                                       ![p].steps = Append(@, "AssignBucket")]
            ELSE /\ userDirs' = IF dir THEN userDirs \cup {u} ELSE userDirs
                 /\ UNCHANGED <<users, ufiles>>
                 /\ buckets' = DeleteBucketEntry(n)
                 /\ req' = [req EXCEPT
                      ![p].pc = "done", ![p].res = "ErrAssign",
                      ![p].steps = @ \o <<"AssignBucket", "DeleteBucket">>]
  /\ UNCHANGED <<driver, paths, remote, now, issued, deleted, created, http,
                 sideVars>>

\* create-bucket: the remote mkdir of the bucket's path as the owner. On
\* failure the assignment is removed, then the entry, and the error of Mkdir
\* is returned.
CliMkdir(p) ==
  /\ At(p, "create-bucket", "cc_mkdir")
  /\ LET u == req[p].uid
         n == req[p].name
         path == req[p].bucket.Path
         call == Call("Mkdir", [Uid |-> u, Gid |-> u])
     IN \E ok \in BOOLEAN :
          IF ok /\ remote[path] # "file"
            THEN /\ remote' = [remote EXCEPT ![path] =
                                 IF @ = "absent" THEN "empty" ELSE @]
                 /\ UNCHANGED <<buckets, users, ufiles>>
                 /\ req' = [req EXCEPT ![p].pc = "done", ![p].res = "OK",
                                       ![p].calls = @ \cup {call},
                                       ![p].steps = Append(@, "Mkdir")]
            ELSE /\ UNCHANGED remote
                 /\ IF driver = "memory"
                      THEN /\ users' = [users EXCEPT ![u] = DeleteName(@, n)]
                           /\ UNCHANGED ufiles
                      ELSE /\ ufiles' = [ufiles EXCEPT ![u] = @ \ {n}]
                           /\ UNCHANGED users
                 /\ buckets' = DeleteBucketEntry(n)
                 /\ req' = [req EXCEPT
                      ![p].pc = "done", ![p].res = "ErrRemote",
                      ![p].calls = @ \cup {call},
                      ![p].steps = @ \o <<"Mkdir", "UnassignBucket",
                                          "DeleteBucket">>]
  /\ UNCHANGED <<driver, userDirs, paths, now, issued, deleted, created, http,
                 sideVars>>

\* The operator tool: create-bucket and the direct registry calls, one
\* command after the other.
NextCli ==
  \E p \in Procs :
    \/ Quiet /\ FreeSlot(p) /\ CliIssue(p)
    \/ Quiet /\ FreeSlot(p) /\ IssueRegistry(p)
    \/ CliCreate(p) \/ CliAssign(p) \/ CliMkdir(p)
    \/ RegistryStep(p)
    \/ DirectStep(p)
    \/ Finish(p)

SpecCli == Init /\ [][NextCli]_vars

\* The requests that store an object and read it.
ReadingOps == {"CreateBucket", "PutObject", "HeadObject", "GetObject"}

NextObj ==
  \E p \in Procs :
    \/ Quiet /\ FreeSlot(p) /\ IssueBackend(p, ReadingOps)
    \/ CreateBucketGet(p) \/ CreateBucketPath(p)
    \/ RegistryCreateCheck(p) \/ RegistryCreateWrite(p)
    \/ CreateBucketMkdir(p)
    \/ PutObjectGet(p) \/ PutObjectUpload(p)
    \/ HeadObjectGet(p) \/ HeadObjectStat(p)
    \/ GetObjectGet(p) \/ GetObjectDownload(p) \/ GetObjectStat(p)
    \/ Finish(p)

SpecObj == Init /\ [][NextObj]_vars

\* The registry under concurrent callers: direct registry calls of several
\* goroutines, interleaved at their shared accesses.
NextConc ==
  \E p \in Procs :
    \/ FreeSlot(p) /\ IssueRegistry(p)
    \/ RegistryStep(p)
    \/ DirectStep(p)
    \/ Finish(p)

SpecConc == Init /\ [][NextConc]_vars

\* ------------------------------------------------------ the data-plane client

\* Strings of the data plane are sequences of characters; a literal of the
\* code that holds no '/', '#' or '%' is one element.

\* strings.TrimRight(s, "/").
RECURSIVE TrimRight(_)
TrimRight(s) ==
  IF s # << >> /\ s[Len(s)] = "/" THEN TrimRight(SubSeq(s, 1, Len(s) - 1))
  ELSE s

\* strings.TrimLeft(s, "/").
RECURSIVE TrimLeft(_)
TrimLeft(s) ==
  IF s # << >> /\ Head(s) = "/" THEN TrimLeft(Tail(s)) ELSE s

\* strings.ReplaceAll(s, "#", "%23").
RECURSIVE ReplaceAll(_)
ReplaceAll(s) ==
  IF s = << >> THEN << >>
  ELSE (IF Head(s) = "#" THEN <<"%", "2", "3">> ELSE <<Head(s)>>)
         \o ReplaceAll(Tail(s))

\* fmt.Sprintf("?eos.ruid=%d&eos.rgid=%d", auth.Uid, auth.Gid).
Query(auth) ==
  <<"?", "eos.ruid=", ToString(auth.Uid), "&", "eos.rgid=", ToString(auth.Gid)>>

\* buildFullHttpUrl without the replacement of '#'.
buildFullHttpUrl_NoEscape(httpUrl, auth, path) ==
  TrimRight(httpUrl) \o <<"/">> \o TrimLeft(path) \o Query(auth)

\* buildFullHttpUrl(auth, path) of a client configured with httpUrl.
buildFullHttpUrl(httpUrl, auth, path) ==
  ReplaceAll(TrimRight(httpUrl) \o <<"/">> \o TrimLeft(path) \o Query(auth))

\* The characters paths are made of, and the paths up to MaxPathLen.
PathChars == {"/", "#", "a"}

PathsOfLen(n) == [1..n -> PathChars]

AllPaths == UNION {PathsOfLen(n) : n \in 0..MaxPathLen}

\* Configured base URLs: with and without trailing slashes.
HttpUrls == {<<"h">>, <<"h", "/">>, <<"h", "/", "/">>}

\* The identities a request is made for.
Auths == {[Uid |-> u, Gid |-> g] : u \in Uids, g \in Uids}

\* The URL of the first request is composed for a client, an identity and a
\* path.
BuildUrl ==
  /\ http.pc = "idle"
  /\ \E base \in HttpUrls, auth \in Auths, path \in AllPaths :
       http' = [IdleHttp EXCEPT !.pc = "url", !.base = base, !.auth = auth,
                                !.path = path,
                                !.cur.url = buildFullHttpUrl(base, auth, path)]
  /\ UNCHANGED <<driver, regVars, remote, now, issued, req, deleted, created, sideVars>>

\* The composed URL is dropped.
DropUrl ==
  /\ http.pc = "url"
  /\ http' = IdleHttp
  /\ UNCHANGED <<driver, regVars, remote, now, issued, req, deleted, created, sideVars>>

NextUrl == BuildUrl \/ DropUrl

InitHttpOnly == Init /\ driver = "memory"

SpecUrl == InitHttpOnly /\ [][NextUrl]_vars

\* The base URL of the client that runs the transfers, the paths transferred
\* (backing path of a bucket joined with a key), the storage nodes a Location
\* header may name; NoLocation: the response has no Location.
HttpURL == <<"h", "/">>

TransferPaths == {<<"/", "b", "/", "k">>, <<"/", "b", "/", "#", "k">>}

TransferAuths == {AuthOf(c) : c \in Accounts}

Locations == {<<"fst1">>, <<"fst2">>}

NoLocation == << >>

\* http.StatusOK, StatusCreated, StatusFound, StatusTemporaryRedirect, and
\* StatusNotFound for any status the client neither accepts nor follows.
StatusOK == 200

StatusCreated == 201

StatusFound == 302

StatusTemporaryRedirect == 307

StatusNotFound == 404

Statuses ==
  {StatusOK, StatusCreated, StatusFound, StatusTemporaryRedirect, StatusNotFound}

RedirectStatuses == {StatusFound, StatusTemporaryRedirect}

\* The names of the headers set at the top of every round of the loop.
ImpersonationHeaders ==
  {"x-gateway-authorization", "x-forwarded-for", "remote-user"}

\* The configured authorization key.
AuthKey == "key"

\* Auth.Username(): the name user.LookupId finds for the uid, "<unknown>"
\* when the lookup fails.
Usernames(auth) == {"user" \o ToString(auth.Uid), "<unknown>"}

\* http.Header.Set(name, value).
HeaderSet(hdrs, name, value) ==
  {h \in hdrs : h.name # name} \cup {[name |-> name, value |-> value]}

\* http.NewRequestWithContext(ctx, verb, url, body): no header yet.
NewRequest(url, body) == [url |-> url, body |-> body, clen |-> -1, hdrs |-> {}]

\* The impersonation headers set on the first request only.
WithImpersonation_FirstOnly(r) ==
  IF http.sent # << >> THEN r
  ELSE [r EXCEPT !.hdrs =
          HeaderSet(HeaderSet(HeaderSet(@, "x-gateway-authorization", AuthKey),
                              "x-forwarded-for", "dummy"),
                    "remote-user", http.user)]

\* The three req.Header.Set calls at the top of the loop, on the request r
\* about to go out.
WithImpersonation(r) ==
  [r EXCEPT !.hdrs =
     HeaderSet(HeaderSet(HeaderSet(@, "x-gateway-authorization", AuthKey),
                         "x-forwarded-for", "dummy"),
               "remote-user", http.user)]

\* The statuses after which Download re-issues its request.
DownloadRedirects == {StatusFound, StatusTemporaryRedirect}

\* The statuses after which Upload re-issues its request.
UploadRedirects == {StatusTemporaryRedirect}

\* A transfer starts for an identity and a path: the first request goes to
\* the composed URL with no body.
Start(verb, len) ==
  /\ http.pc = "idle"
  /\ \E auth \in TransferAuths, path \in TransferPaths :
       \E user \in Usernames(auth) :
         http' = [IdleHttp EXCEPT
                    !.pc = "loop", !.verb = verb, !.length = len,
                    !.base = HttpURL, !.auth = auth, !.path = path,
                    !.user = user, !.store = http.store,
                    !.cur = NewRequest(buildFullHttpUrl(HttpURL, auth, path),
                                       FALSE)]
  /\ UNCHANGED <<driver, regVars, remote, now, issued, req, deleted, created, sideVars>>

\* Upload(auth, path, data, length).
UploadStart == \E len \in 0..MaxLen : Start("PUT", len)

\* Download(auth, path).
DownloadStart == Start("GET", 0)

\* What the endpoint answers to the request in flight: a transport error, or
\* a status with or without a Location. A chain of redirects is finite.
Answers ==
  {[err |-> e, status |-> st, loc |-> l] :
     e \in BOOLEAN, st \in Statuses, l \in Locations \cup {NoLocation}}

Answer(a) ==
  /\ a.err => a.status = StatusOK /\ a.loc = NoLocation
  /\ a.status \notin RedirectStatuses => a.loc = NoLocation
  /\ a.status \in RedirectStatuses => Len(http.sent) + 1 < MaxHops

\* The bytes of the input stream the transport has read once the answer to
\* the request in flight is in: none for a request without body; all of them
\* when the endpoint answers 200 or 201 (it stored the body it was sent); any
\* number from those read so far to all of them otherwise.
ConsumedAfter(a) ==
  IF ~http.cur.body THEN {http.consumed}
  ELSE IF ~a.err /\ a.status \in {StatusOK, StatusCreated} THEN {http.length}
  ELSE http.consumed .. http.length

\* The request issued in this round, as it goes out, and the answer to it.
Sent(a) ==
  [url |-> http.cur.url, verb |-> http.verb,
   hdrs |-> WithImpersonation(http.cur).hdrs,
   clen |-> http.cur.clen, body |-> http.cur.body,
   avail |-> IF http.cur.body THEN http.length - http.consumed ELSE 0,
   err |-> a.err, status |-> a.status, loc |-> a.loc]

\* A slice of the uploaded stream: n bytes from offset `from`; n = -1 for
\* bytes that are not of the stream.
Slice(from, n) == [from |-> from, n |-> n]

\* The file at the endpoint after the answer a to the request in flight. A
\* PUT answered 200 or 201 stored the body it carried: what was left of the
\* stream, or nothing for a request without body. Any other end of an upload
\* to the path of the file leaves no upload to it that succeeded.
StoreAfter(a) ==
  IF http.verb # "PUT" THEN http.store
  ELSE IF ~a.err /\ a.status \in {StatusOK, StatusCreated}
    THEN [exists |-> TRUE, path |-> http.path, auth |-> http.auth,
          data |-> IF http.cur.body
                     THEN Slice(http.consumed, http.length - http.consumed)
                     ELSE Slice(0, 0),
          okLen |-> http.length]
  ELSE IF http.store.path = http.path /\ (a.err \/ a.status \notin UploadRedirects
                                            \/ a.loc = NoLocation)
    THEN [http.store EXCEPT !.okLen = -1]
  ELSE http.store

\* What a GET answered 200 delivers: the body (the file of the path where it
\* is known) and the ContentLength of the response, -1 when not announced.
Bodies ==
  LET data == IF http.store.exists /\ http.store.path = http.path
                THEN http.store.data ELSE Slice(0, -1)
  IN {[body |-> data, size |-> s] : s \in {-1, data.n}}

\* The result of a transfer: fmt.Errorf("got non OK status code from %s: %d",
\* req.URL.String(), res.StatusCode) for err = "status".
Result(err, url, status, body) ==
  [err |-> err, url |-> url, status |-> status, body |-> body.body,
   size |-> body.size]

NoBody == [body |-> Slice(0, -1), size |-> -1]

\* One round of the loop of a transfer: the headers are set, the request goes
\* out, and the answer is a transport error (returned), a status of
\* `redirects` (the request is re-issued to the Location, for an upload with
\* the data reader as body and a Content-Length header), or a terminal status.
Round(verb, redirects, okStatuses) ==
  /\ http.pc = "loop"
  /\ http.verb = verb
  /\ \E a \in Answers :
       /\ Answer(a)
       /\ \E c \in ConsumedAfter(a) :
            LET h == [http EXCEPT !.sent = Append(@, Sent(a)), !.consumed = c,
                                  !.store = StoreAfter(a)]
                url == http.cur.url
            IN IF a.err
                 THEN http' = [h EXCEPT !.pc = "done",
                          !.res = Result("transport", url, 0, NoBody)]
               ELSE IF a.status \in redirects
                 THEN IF a.loc = NoLocation
                        THEN http' = [h EXCEPT !.pc = "done",
                                 !.res = Result("location", url, a.status, NoBody)]
                        ELSE http' = [h EXCEPT
                                 !.cur = IF verb = "PUT"
                                           THEN [NewRequest(a.loc, TRUE) EXCEPT
                                                   !.clen = http.length]
                                           ELSE NewRequest(a.loc, FALSE)]
               ELSE IF a.status \notin okStatuses
                 THEN http' = [h EXCEPT !.pc = "done",
                          !.res = Result("status", url, a.status, NoBody)]
               ELSE IF verb = "GET"
                 THEN \E b \in Bodies :
                        http' = [h EXCEPT !.pc = "done",
                                   !.res = Result("nil", url, a.status, b)]
               ELSE http' = [h EXCEPT !.pc = "done",
                        !.res = Result("nil", url, a.status, NoBody)]
  /\ UNCHANGED <<driver, regVars, remote, now, issued, req, deleted, created, sideVars>>

\* The loop of Upload taking every status for a success.
UploadRound_AcceptAll == Round("PUT", UploadRedirects, Statuses)

UploadRound == Round("PUT", UploadRedirects, {StatusOK, StatusCreated})

DownloadRound == Round("GET", DownloadRedirects, {StatusOK})

\* The transfer has returned to its caller; the endpoint keeps its file.
TransferReturn ==
  /\ http.pc = "done"
  /\ http' = [IdleHttp EXCEPT !.store = http.store]
  /\ UNCHANGED <<driver, regVars, remote, now, issued, req, deleted, created, sideVars>>

NextHttp ==
  \/ UploadStart
  \/ DownloadStart
  \/ UploadRound
  \/ DownloadRound
  \/ TransferReturn

SpecHttp == InitHttpOnly /\ [][NextHttp]_vars


\* ------------------------------------------------- the pages of ListBuckets

\* The longest bucket list paged, the largest page maximum asked for and the
\* number of pages followed.
MaxList == 5

MaxBuckets == 3

MaxPages == 6

\* Bucket names and requested prefixes, as character sequences; the list a
\* registry hands to the backend, here by the names of its buckets, and the
\* same at every page.
PageNames == {<<"a", "1">>, <<"b", "1">>, <<"b", "2">>, <<"b", "3">>,
              <<"b", "4">>, <<"b", "5">>}

PagePrefixes == {<< >>, <<"b">>}

BucketLists ==
  {l \in UNION {[1..n -> PageNames] : n \in 0..MaxList} :
     \A i, j \in 1..Len(l) : l[i] = l[j] => i = j}

\* The empty continuation token.
NoToken == << >>

\* strings.HasPrefix(s, prefix).
HasPrefix(s, prefix) ==
  Len(s) >= Len(prefix) /\ SubSeq(s, 1, Len(prefix)) = prefix

\* slices.IndexFunc(buckets, Name == tkn), counted from 1; 0: not found.
IndexFunc(bs, tkn) ==
  IF \E i \in 1..Len(bs) : bs[i] = tkn
    THEN CHOOSE i \in 1..Len(bs) :
           bs[i] = tkn /\ \A j \in 1..(i - 1) : bs[j] # tkn
    ELSE 0

\* The list the loop runs over: from the token's bucket on, that bucket
\* included, or the whole list when no bucket has the token's name.
FromToken(bs, tkn) ==
  IF IndexFunc(bs, tkn) >= 1 THEN SubSeq(bs, IndexFunc(bs, tkn), Len(bs))
  ELSE bs

\* prepareListBucketResult stopping one bucket later, after max buckets.
prepareListBucketResult_WholePages(bs, prefix, tkn, max) ==
  LET rest == FromToken(bs, tkn)
      keep(b) == HasPrefix(b, prefix)
  IN  IF max >= 0 /\ Len(rest) >= max + 1
        THEN [entries |-> SelectSeq(SubSeq(rest, 1, max), keep),
              token |-> rest[max + 1]]
        ELSE [entries |-> SelectSeq(rest, keep), token |-> NoToken]

\* prepareListBucketResult(buckets, prefix, tkn, max): the loop returns at
\* index max-1 with that bucket's name for a token and the buckets before it
\* that have the prefix for entries; a list that ends earlier gives the empty
\* token.
prepareListBucketResult(bs, prefix, tkn, max) ==
  LET rest == FromToken(bs, tkn)
      keep(b) == HasPrefix(b, prefix)
  IN  IF max >= 1 /\ Len(rest) >= max
        THEN [entries |-> SelectSeq(SubSeq(rest, 1, max - 1), keep),
              token |-> rest[max]]
        ELSE [entries |-> SelectSeq(rest, keep), token |-> NoToken]

\* The token of the last page returned.
LastToken == page.pages[Len(page.pages)].token

\* ListBuckets without a continuation token: the first page.
ListBucketsFirst ==
  /\ page.pc = "idle"
  /\ \E bs \in BucketLists, prefix \in PagePrefixes, max \in 1..MaxBuckets :
       page' = [pc |-> "paging", buckets |-> bs, prefix |-> prefix,
                max |-> max,
                pages |-> <<prepareListBucketResult(bs, prefix, NoToken, max)>>]
  /\ UNCHANGED <<driver, regVars, remote, now, issued, req, deleted, created,
                 http, twin, stream, mem>>

\* ListBuckets with the token of the page before: the next page.
ListBucketsFollow ==
  /\ page.pc = "paging"
  /\ LastToken # NoToken
  /\ Len(page.pages) < MaxPages
  /\ page' = [page EXCEPT !.pages =
                Append(@, prepareListBucketResult(page.buckets, page.prefix,
                                                  LastToken, page.max))]
  /\ UNCHANGED <<driver, regVars, remote, now, issued, req, deleted, created,
                 http, twin, stream, mem>>

\* The caller stops paging.
ListBucketsEnd ==
  /\ page.pc = "paging"
  /\ page' = IdlePage
  /\ UNCHANGED <<driver, regVars, remote, now, issued, req, deleted, created,
                 http, twin, stream, mem>>

NextPage == ListBucketsFirst \/ ListBucketsFollow \/ ListBucketsEnd

SpecPage == InitHttpOnly /\ [][NextPage]_vars


\* ------------------------------------------------- the metadata listing

\* The longest stream followed.
MaxStream == 3

\* The entries a Find stream yields, and the errors it fails with.
StreamEntries == {"d", "x", "y"}

Streams == UNION {[1..n -> StreamEntries] : n \in 0..MaxStream}

StreamErrors == {"canceled", "unavailable"}

\* ListDir: c.grpcClient.Find is called once. It fails, and its error is
\* returned, or it opens a stream that yields its entries and then ends, or
\* fails with err after `fail` entries.
ListDirFind ==
  /\ stream.pc = "idle"
  /\ \/ \E e \in StreamErrors :
          stream' = [IdleStream EXCEPT !.pc = "done", !.res = e, !.finds = 1]
     \/ \E es \in Streams :
          stream' = [IdleStream EXCEPT !.pc = "recv", !.entries = es,
                                       !.finds = 1]
     \/ \E es \in Streams, k \in 0..MaxStream, e \in StreamErrors :
          /\ k <= Len(es)
          /\ stream' = [IdleStream EXCEPT !.pc = "recv", !.entries = es,
                                          !.fail = k, !.err = e, !.finds = 1]
  /\ UNCHANGED <<driver, regVars, remote, now, issued, req, deleted, created,
                 http, page, twin, mem>>

\* ListDir taking every error of Recv for the end of the stream.
ListDirRecv_AnyErrorIsEnd ==
  /\ stream.pc = "recv"
  /\ IF stream.i = stream.fail \/ stream.i = Len(stream.entries)
       THEN stream' = [stream EXCEPT !.pc = "done", !.res = "nil",
                                     !.recvs = @ + 1]
       ELSE stream' = [stream EXCEPT
                         !.i = @ + 1, !.recvs = @ + 1,
                         !.handed = IF stream.i + 1 = 1 THEN @
                                    ELSE Append(@, stream.entries[stream.i + 1])]
  /\ UNCHANGED <<driver, regVars, remote, now, issued, req, deleted, created,
                 http, page, twin, mem>>

\* ListDir: one turn of the loop. res.Recv() fails with io.EOF, and ListDir
\* returns nil, or with another error, and ListDir returns it; else the
\* entry received is counted and, unless it is the first, handed to f.
ListDirRecv ==
  /\ stream.pc = "recv"
  /\ IF stream.i = stream.fail
       THEN stream' = [stream EXCEPT !.pc = "done", !.res = stream.err,
                                     !.recvs = @ + 1]
       ELSE IF stream.i = Len(stream.entries)
         THEN stream' = [stream EXCEPT !.pc = "done", !.res = "nil",
                                       !.recvs = @ + 1]
         ELSE stream' = [stream EXCEPT
                           !.i = @ + 1, !.recvs = @ + 1,
                           !.handed = IF stream.i + 1 = 1 THEN @
                                      ELSE Append(@, stream.entries[stream.i + 1])]
  /\ UNCHANGED <<driver, regVars, remote, now, issued, req, deleted, created,
                 http, page, twin, mem>>

\* ListDir has returned to its caller.
ListDirReturn ==
  /\ stream.pc = "done"
  /\ stream' = IdleStream
  /\ UNCHANGED <<driver, regVars, remote, now, issued, req, deleted, created,
                 http, page, twin, mem>>

NextStream == ListDirFind \/ ListDirRecv \/ ListDirReturn

SpecStream == InitHttpOnly /\ [][NextStream]_vars


\* --------------------------------------- the in-memory registry and its lock

\* The number of calls followed on one registry.
MaxCalls == 4

\* The methods that hold the shared lock for their whole body, those that
\* hold the exclusive lock for their whole body (both by a deferred unlock),
\* and CreateBucket, which takes the shared lock for its test and the
\* exclusive lock for its write.
MemReaders ==
  {"GetBucket", "ListBuckets", "ListBucketsByUser", "GetDefaultBucketPath"}

MemWriters ==
  {"DeleteBucket", "AssignBucket", "UnassignBucket", "StoreDefaultBucketPath"}

MemOps == MemReaders \cup MemWriters \cup {"CreateBucket"}

MemUnchanged ==
  UNCHANGED <<driver, regVars, remote, now, issued, req, deleted, created,
              http, page, twin, stream>>

\* Goroutine p calls a method of the registry.
MemCall(p) ==
  /\ mem.call[p].pc = "idle"
  /\ mem.count < MaxCalls
  /\ \E op \in MemOps, n \in Names :
       mem' = [mem EXCEPT
                 !.count = @ + 1,
                 !.call[p] = [op |-> op, name |-> n, seen |-> FALSE, res |-> "",
                              pc |-> IF op \in MemWriters THEN "lock"
                                     ELSE "rlock"]]
  /\ MemUnchanged

\* m.RLock(): it waits while a writer holds m or has announced itself.
MemRLock(p) ==
  /\ mem.call[p].pc = "rlock"
  /\ mem.w = 0
  /\ mem' = [mem EXCEPT !.readers = @ \cup {p}, !.call[p].pc = "rbody"]
  /\ MemUnchanged

\* The body of a reading method, and the test of CreateBucket.
MemRead(p) ==
  /\ mem.call[p].pc = "rbody"
  /\ mem' = [mem EXCEPT !.call[p].seen = (mem.call[p].name \in mem.buckets),
                        !.call[p].pc = "runlock"]
  /\ MemUnchanged

\* CreateBucket returning ErrBucketAlreadyExisting with the shared lock held.
MemRUnlock_NotOnExisting(p) ==
  /\ mem.call[p].pc = "runlock"
  /\ LET c == mem.call[p]
     IN  mem' = [mem EXCEPT
                   !.readers = IF c.op = "CreateBucket" /\ c.seen THEN @
                               ELSE @ \ {p},
                   !.call[p].pc = IF c.op = "CreateBucket" /\ ~c.seen
                                    THEN "lock" ELSE "done",
                   !.call[p].res = IF c.op = "CreateBucket" /\ c.seen
                                     THEN "ErrBucketAlreadyExisting"
                                   ELSE IF c.op = "GetBucket" /\ ~c.seen
                                     THEN "ErrNoSuchBucket"
                                   ELSE IF c.op = "CreateBucket" THEN ""
                                   ELSE "nil"]
  /\ MemUnchanged

\* m.RUnlock(): deferred in the reading methods, and they return; called
\* after the test in CreateBucket, which returns ErrBucketAlreadyExisting or
\* goes on to its write.
MemRUnlock(p) ==
  /\ mem.call[p].pc = "runlock"
  /\ LET c == mem.call[p]
     IN  mem' = [mem EXCEPT
                   !.readers = @ \ {p},
                   !.call[p].pc = IF c.op = "CreateBucket" /\ ~c.seen
                                    THEN "lock" ELSE "done",
                   !.call[p].res = IF c.op = "CreateBucket" /\ c.seen
                                     THEN "ErrBucketAlreadyExisting"
                                   ELSE IF c.op = "GetBucket" /\ ~c.seen
                                     THEN "ErrNoSuchBucket"
                                   ELSE IF c.op = "CreateBucket" THEN ""
                                   ELSE "nil"]
  /\ MemUnchanged

\* m.Lock(), first half: the writer takes its turn among the writers and
\* announces itself; from now on no new reader gets in.
MemLock(p) ==
  /\ mem.call[p].pc = "lock"
  /\ mem.w = 0
  /\ mem' = [mem EXCEPT !.w = p, !.call[p].pc = "lwait"]
  /\ MemUnchanged

\* m.Lock(), second half: the writer waits for the readers inside to leave.
MemLockEnter(p) ==
  /\ mem.call[p].pc = "lwait"
  /\ mem.readers = {}
  /\ mem' = [mem EXCEPT !.call[p].pc = "wbody"]
  /\ MemUnchanged

\* The body of a writing method: the write of a map; the write of the nil
\* map paths panics. raced records a write made while another goroutine
\* was inside the lock.
MemWrite(p) ==
  /\ mem.call[p].pc = "wbody"
  /\ LET c == mem.call[p]
         panics == c.op = "StoreDefaultBucketPath"
     IN  mem' = [mem EXCEPT
                   !.buckets = IF c.op = "CreateBucket" THEN @ \cup {c.name}
                               ELSE IF c.op = "DeleteBucket" THEN @ \ {c.name}
                               ELSE @,
                   !.raced = @ \/ (~panics /\ (mem.readers # {} \/ mem.w # p)),
                   !.call[p].res = IF panics THEN "panic" ELSE "nil",
                   !.call[p].pc = "unlock"]
  /\ MemUnchanged

\* m.Unlock(): deferred in the writing methods (it runs while the panic
\* unwinds, too), called after the write in CreateBucket.
MemUnlock(p) ==
  /\ mem.call[p].pc = "unlock"
  /\ mem' = [mem EXCEPT !.w = 0, !.call[p].pc = "done"]
  /\ MemUnchanged

\* The caller has the result.
MemReturn(p) ==
  /\ mem.call[p].pc = "done"
  /\ mem' = [mem EXCEPT !.call[p] = FreshMem.call[p]]
  /\ MemUnchanged

\* One step of the call of goroutine p.
MemStep(p) ==
  \/ MemRLock(p) \/ MemRead(p) \/ MemRUnlock(p)
  \/ MemLock(p) \/ MemLockEnter(p) \/ MemWrite(p) \/ MemUnlock(p)

NextMem == \E p \in Procs : MemCall(p) \/ MemStep(p) \/ MemReturn(p)

\* Every goroutine that can take a step of its call takes one in the end.
SpecMem ==
  /\ InitHttpOnly
  /\ [][NextMem]_vars
  /\ \A p \in Procs : WF_vars(MemStep(p))


\* ------------------------------------------- the two drivers side by side

\* The result of a registry call: the registry after it, the error and the
\* value returned ("" for a call that returns an error only).
Returned(reg, err, val) == [reg |-> reg, err |-> err, val |-> val]

\* InMemoryBucketStorer, one operator per method, on the registry r.
InMemory_GetBucket(r, name) ==
  IF r.buckets[name] # NoBucket THEN Returned(r, "nil", r.buckets[name])
  ELSE Returned(r, "ErrNoSuchBucket", NoBucket)

InMemory_CreateBucket(r, bucket) ==
  IF r.buckets[bucket.Name] # NoBucket
    THEN Returned(r, "ErrBucketAlreadyExisting", "")
    ELSE Returned([r EXCEPT !.buckets[bucket.Name] = bucket], "nil", "")

InMemory_DeleteBucket(r, name) ==
  Returned([r EXCEPT !.buckets[name] = NoBucket], "nil", "")

InMemory_ListBuckets(r) ==
  Returned(r, "nil", {r.buckets[n] : n \in {m \in Names : r.buckets[m] # NoBucket}})

InMemory_AssignBucket(r, name, uid) ==
  Returned([r EXCEPT !.users[uid] = Append(@, name)], "nil", "")

\* copy into a slice of length 0 copies nothing.
InMemory_ListBucketsByUser(r, uid) == Returned(r, "nil", {})

InMemory_UnassignBucket(r, name, uid) ==
  Returned([r EXCEPT !.users[uid] = DeleteName(@, name)], "nil", "")

\* The read of a nil map gives the zero value.
InMemory_GetDefaultBucketPath(r, uid) == Returned(r, "nil", EmptyPath)

\* The assignment to an entry of a nil map panics; the deferred Unlock runs.
InMemory_StoreDefaultBucketPath(r, uid, path) == Returned(r, "panic", "")

\* LocalBucketStorer, one operator per method, on the folder r.
Local_GetBucket(r, name) ==
  IF r.files[name] # NoBucket THEN Returned(r, "nil", r.files[name])
  ELSE Returned(r, "ErrNoSuchBucket", NoBucket)

Local_CreateBucket(r, bucket) ==
  IF Local_GetBucket(r, bucket.Name).err = "nil"
    THEN Returned(r, "ErrBucketAlreadyExisting", "")
    ELSE Returned([r EXCEPT !.files[bucket.Name] = bucket], "nil", "")

\* The error of os.Remove is dropped.
Local_DeleteBucket(r, name) ==
  Returned([r EXCEPT !.files[name] = NoBucket], "nil", "")

\* Every bucket file is read and decoded, none is appended.
Local_ListBuckets(r) == Returned(r, "nil", {})

Local_AssignBucket(r, name, uid) ==
  Returned([r EXCEPT !.dirs = @ \cup {uid}, !.marks[uid] = @ \cup {name}],
         "nil", "")

\* os.ReadDir of the user's folder without its .metadata; the folder of uid
\* 0 is users/, which also holds the folders of the other uids.
Local_ListBucketsByUser(r, uid) ==
  IF uid \notin r.dirs THEN Returned(r, "nil", {})
  ELSE Returned(r, "nil",
              r.marks[uid] \cup
                (IF uid = 0 THEN {UserFolderName(u) : u \in r.dirs \ {0}}
                 ELSE {}))

Local_UnassignBucket(r, name, uid) ==
  Returned([r EXCEPT !.marks[uid] = @ \ {name}], "nil", "")

\* getUserMetadata: the decoded .metadata, or the zero UserMetadata when
\* there is no such file.
getUserMetadata(r, uid) ==
  IF r.meta[uid].exists THEN r.meta[uid].path ELSE EmptyPath

Local_GetDefaultBucketPath(r, uid) == Returned(r, "nil", getUserMetadata(r, uid))

\* The metadata read is written back as it is: path is not put into it.
\* os.WriteFile fails when the user's folder does not exist.
Local_StoreDefaultBucketPath(r, uid, path) ==
  IF uid \notin r.dirs THEN Returned(r, "ErrNotExist", "")
  ELSE Returned([r EXCEPT !.meta[uid] =
                 [exists |-> TRUE, path |-> getUserMetadata(r, uid)]],
              "nil", "")

\* The buckets a caller registers and the default paths an operator stores.
TwinBuckets ==
  {[Name |-> n, Path |-> Join(HomeOf(u), n), CreatedAt |-> 1] :
     n \in Names, u \in Uids}

TwinPaths == {HomeOf(u) : u \in Uids}

\* The same call has been made on both registries, with results m and l.
\* absent: the name of the call had no entry before it; kept: the call has
\* left the registry as it was; before: the default paths before the call.
Both(call, m, l) ==
  twin' = [memory |-> m.reg, local |-> l.reg, call |-> call,
           res |-> [d \in {"memory", "local"} |->
                      IF d = "memory" THEN [err |-> m.err, val |-> m.val]
                      ELSE [err |-> l.err, val |-> l.val]],
           absent |-> [d \in {"memory", "local"} |->
                         /\ call.name \in Names
                         /\ IF d = "memory"
                              THEN twin.memory.buckets[call.name] = NoBucket
                              ELSE twin.local.files[call.name] = NoBucket],
           kept |-> [d \in {"memory", "local"} |->
                       IF d = "memory" THEN m.reg = twin.memory
                       ELSE l.reg = twin.local],
           before |-> [d \in {"memory", "local"} |-> [u \in Uids |->
                         IF d = "memory"
                           THEN InMemory_GetDefaultBucketPath(twin.memory, u).val
                           ELSE Local_GetDefaultBucketPath(twin.local, u).val]]]

TwinUnchanged ==
  UNCHANGED <<driver, regVars, remote, now, issued, req, deleted, created,
              http, page, stream, mem>>

CallCreateBucket ==
  /\ \E b \in TwinBuckets :
       Both([NoCall EXCEPT !.op = "CreateBucket", !.name = b.Name,
                           !.path = b.Path],
            InMemory_CreateBucket(twin.memory, b),
            Local_CreateBucket(twin.local, b))
  /\ TwinUnchanged

CallGetBucket ==
  /\ \E n \in Names :
       Both([NoCall EXCEPT !.op = "GetBucket", !.name = n],
            InMemory_GetBucket(twin.memory, n), Local_GetBucket(twin.local, n))
  /\ TwinUnchanged

CallDeleteBucket ==
  /\ \E n \in Names :
       Both([NoCall EXCEPT !.op = "DeleteBucket", !.name = n],
            InMemory_DeleteBucket(twin.memory, n),
            Local_DeleteBucket(twin.local, n))
  /\ TwinUnchanged

CallListBuckets ==
  /\ Both([NoCall EXCEPT !.op = "ListBuckets"],
          InMemory_ListBuckets(twin.memory), Local_ListBuckets(twin.local))
  /\ TwinUnchanged

CallAssignBucket ==
  /\ \E n \in Names, u \in Uids :
       /\ Len(twin.memory.users[u]) < MaxAssign
       /\ Both([NoCall EXCEPT !.op = "AssignBucket", !.name = n, !.uid = u],
               InMemory_AssignBucket(twin.memory, n, u),
               Local_AssignBucket(twin.local, n, u))
  /\ TwinUnchanged

CallListBucketsByUser ==
  /\ \E u \in Uids :
       Both([NoCall EXCEPT !.op = "ListBucketsByUser", !.uid = u],
            InMemory_ListBucketsByUser(twin.memory, u),
            Local_ListBucketsByUser(twin.local, u))
  /\ TwinUnchanged

CallUnassignBucket ==
  /\ \E n \in Names, u \in Uids :
       Both([NoCall EXCEPT !.op = "UnassignBucket", !.name = n, !.uid = u],
            InMemory_UnassignBucket(twin.memory, n, u),
            Local_UnassignBucket(twin.local, n, u))
  /\ TwinUnchanged

CallGetDefaultBucketPath ==
  /\ \E u \in Uids :
       Both([NoCall EXCEPT !.op = "GetDefaultBucketPath", !.uid = u],
            InMemory_GetDefaultBucketPath(twin.memory, u),
            Local_GetDefaultBucketPath(twin.local, u))
  /\ TwinUnchanged

CallStoreDefaultBucketPath ==
  /\ \E u \in Uids, path \in TwinPaths :
       Both([NoCall EXCEPT !.op = "StoreDefaultBucketPath", !.uid = u,
                           !.path = path],
            InMemory_StoreDefaultBucketPath(twin.memory, u, path),
            Local_StoreDefaultBucketPath(twin.local, u, path))
  /\ TwinUnchanged

NextReg ==
  \/ CallCreateBucket
  \/ CallGetBucket
  \/ CallDeleteBucket
  \/ CallListBuckets
  \/ CallAssignBucket
  \/ CallListBucketsByUser
  \/ CallUnassignBucket
  \/ CallGetDefaultBucketPath
  \/ CallStoreDefaultBucketPath

SpecReg == InitHttpOnly /\ [][NextReg]_vars


\* ------------------------------------------------------------------ claims

\* The requests of slot p that have returned from operation op.
Done(p, op) == req[p].op = op /\ req[p].pc = "done"

\* C1: when the registry write of CreateBucket(name) succeeded and the remote
\* mkdir then failed, the entry is gone by the time the error is returned:
\* GetBucket(name) is NotFound.
C1_MkdirFailureRollsBack ==
  \A p \in Procs :
    Done(p, "CreateBucket") /\ req[p].wrote /\ req[p].res = "ErrRemote"
      => GetBucket(req[p].name).err = "ErrNoSuchBucket"

\* C2: a CreateBucket(n) of a caller with a default path, issued while n is
\* not registered, succeeds unless the remote mkdir fails; a CreateBucket(n)
\* issued after a successful one and before any DeleteBucket(n) fails with
\* BucketAlreadyExists and leaves the registered entry as it was.
C2_CreateOnceThenAlreadyExists ==
  \A p \in Procs :
    Done(p, "CreateBucket") =>
      /\ req[p].late =>
           /\ req[p].res = "ErrBucketAlreadyExists"
           /\ req[p].snap # NoBucket
           /\ buckets[req[p].name] = req[p].snap
      /\ ( /\ req[p].snap = NoBucket
           /\ req[p].ctx.ok
           /\ GetDefaultBucketPath(req[p].ctx.UserID) # EmptyPath )
           => /\ req[p].res \in {"OK", "ErrRemote"}
              /\ req[p].res = "OK" =>
                   /\ buckets[req[p].name] = req[p].bucket
                   /\ created[req[p].name]

\* C2 witness: a second CreateBucket of a name created before has returned
\* BucketAlreadyExists.
C2_Witness ==
  \E p \in Procs :
    /\ Done(p, "CreateBucket")
    /\ req[p].late
    /\ req[p].res = "ErrBucketAlreadyExists"
    /\ buckets[req[p].name].CreatedAt < now

\* C3: under concurrent registry CreateBucket calls with one name, the entry
\* one call stored is never overwritten by another call (the only step that
\* changes a stored entry removes it).
C3_NeverOverwritten ==
  [][\A n \in Names :
       buckets[n] # NoBucket => buckets'[n] \in {buckets[n], NoBucket}]_vars

C5_EntryAndDirectoryTogether ==
  \A p \in Procs :
    Done(p, "CreateBucket") =>
      LET path == Join(GetDefaultBucketPath(req[p].ctx.UserID), req[p].name)
          entry == req[p].wrote /\ buckets[req[p].name] = req[p].bucket
          dir == req[p].made /\ remote[req[p].bucket.Path] # "absent"
      IN /\ req[p].res = "OK" =>
              /\ buckets[req[p].name].Path = path
              /\ remote[path] # "absent"
         /\ req[p].res # "OK" => (entry <=> dir)

\* C6: every (bucket name, uid) assignment refers to a bucket that has a
\* registry entry.
C6_AssignmentImpliesBucket ==
  \A u \in Uids : \A n \in Assigned(u) : GetBucket(n).err = "nil"

\* C7: a backend operation that acts for the caller (a ListBuckets of an
\* admin does not) and whose context carries no account returns AccessDenied
\* and has issued no remote call.
C7_NoAccountIsAccessDenied ==
  \A p \in Procs :
    (/\ req[p].pc = "done" /\ req[p].op \in BackendOps
     /\ ~req[p].admin /\ ~req[p].ctx.ok)
      => (req[p].res = "ErrAccessDenied" /\ req[p].calls = {})


\* The last request of the transfer and its answer.
LastSent == http.sent[Len(http.sent)]

\* C8: a transfer does not end on a redirect status (302, 307) that names a
\* Location: every request after the first goes, with the verb of the
\* transfer, to the Location of the answer before it, and the answer the
\* transfer ends on is no redirect.
C8_RedirectsAreFollowed ==
  /\ \A i \in 2..Len(http.sent) :
       /\ http.sent[i].url = http.sent[i - 1].loc
       /\ http.sent[i].verb = http.sent[1].verb
       /\ http.sent[i - 1].status \in RedirectStatuses
  /\ http.pc = "done" =>
       ~( /\ ~LastSent.err
          /\ LastSent.status \in RedirectStatuses
          /\ LastSent.loc # NoLocation )

\* C9: every request an upload re-issues after a redirect carries the whole
\* body (all bytes of the declared length, none read by an earlier hop) and
\* a Content-Length header equal to the declared length.
C9_ReissuedUploadCarriesWholeBody ==
  \A i \in 2..Len(http.sent) :
    http.verb = "PUT" =>
      /\ http.sent[i].body
      /\ http.sent[i].avail = http.length
      /\ http.sent[i].clen = http.length

\* C10: when an upload returns success, the input stream is fully consumed:
\* all bytes of the declared length went to the endpoint that answered 200
\* or 201.
C10_SuccessConsumesStream ==
  (http.pc = "done" /\ http.verb = "PUT" /\ http.res.err = "nil")
    => /\ http.consumed = http.length
       /\ LastSent.avail = http.length


\* The value of header `name` among hdrs, "" when it is not set.
HeaderValue(hdrs, name) ==
  IF \E h \in hdrs : h.name = name
    THEN (CHOOSE h \in hdrs : h.name = name).value
    ELSE ""

\* C11: every request of a transfer, the first one and every one re-issued
\* after a redirect, carries the three impersonation headers: the
\* authorization key, the forwarded-for marker, and the username of the
\* identity.
C11_EveryRequestImpersonates ==
  \A i \in 1..Len(http.sent) :
    /\ HeaderValue(http.sent[i].hdrs, "x-gateway-authorization") = AuthKey
    /\ HeaderValue(http.sent[i].hdrs, "x-forwarded-for") = "dummy"
    /\ HeaderValue(http.sent[i].hdrs, "remote-user") = http.user
    /\ http.user \in Usernames(http.auth)

\* C11 witness: an upload was redirected and its second request has gone to
\* the storage node.
C11_Witness ==
  /\ http.verb = "PUT"
  /\ Len(http.sent) >= 2
  /\ http.sent[2].url \in Locations

\* C12: a transfer whose last answer is a status that is neither a redirect
\* nor 200 nor 201 has returned the error that names the URL of the last
\* request and that status; and no request follows an answer that was not a
\* redirect.
C12_TerminalStatusIsFailure ==
  /\ \A i \in 1..(Len(http.sent) - 1) :
       ~http.sent[i].err /\ http.sent[i].status \in RedirectStatuses
  /\ (/\ http.sent # << >>
      /\ ~LastSent.err
      /\ LastSent.status \notin RedirectStatuses \cup {StatusOK, StatusCreated})
       => /\ http.pc = "done"
          /\ http.res.err = "status"
          /\ http.res.url = LastSent.url
          /\ http.res.status = LastSent.status

\* C12 witness: an upload was redirected to a storage node that answered 404.
C12_Witness ==
  /\ http.pc = "done"
  /\ http.verb = "PUT"
  /\ Len(http.sent) = 2
  /\ LastSent.status = StatusNotFound
  /\ http.res.url \in Locations

\* strings.ReplaceAll(s, "%23", "#"): the composed URL with its escapes read
\* back.
RECURSIVE Unescape(_)
Unescape(s) ==
  IF s = << >> THEN << >>
  ELSE IF Len(s) >= 3 /\ SubSeq(s, 1, 3) = <<"%", "2", "3">>
    THEN <<"#">> \o Unescape(SubSeq(s, 4, Len(s)))
  ELSE <<Head(s)>> \o Unescape(Tail(s))

\* The number of elements of s equal to c.
RECURSIVE Count(_, _)
Count(s, c) ==
  IF s = << >> THEN 0
  ELSE (IF Head(s) = c THEN 1 ELSE 0) + Count(Tail(s), c)

\* C13: the URL composed for the first request holds no '#'; every '#' of
\* the path appears as %23; and the URL is the base without trailing '/',
\* a '/', the path without leading '/', then ?eos.ruid=<uid>&eos.rgid=<gid>.
C13_UrlHasNoHash ==
  http.pc = "url" =>
    LET url == http.cur.url
        base == TrimRight(http.base)
        path == TrimLeft(http.path)
    IN /\ Count(url, "#") = 0
       /\ Count(url, "%") = Count(http.path, "#")
       /\ Unescape(url) = base \o <<"/">> \o path \o Query(http.auth)
       /\ base = << >> \/ base[Len(base)] # "/"
       /\ path = << >> \/ Head(path) # "/"
       /\ \E k \in 0..Len(http.base) :
            http.base = base \o [i \in 1..k |-> "/"]
       /\ \E k \in 0..Len(http.path) :
            http.path = [i \in 1..k |-> "/"] \o path

\* C13 witness: a URL composed for a path with a leading '/' and two '#'.
C13_Witness ==
  /\ http.pc = "url"
  /\ http.path = <<"/", "#", "#">>
  /\ http.base = <<"h", "/", "/">>
  /\ http.cur.url = <<"h", "/", "%", "2", "3", "%", "2", "3", "?",
                      "eos.ruid=", "1", "&", "eos.rgid=", "0">>

\* C14: a download that succeeds for the path and the identity of the last
\* upload that returned success delivers exactly the bytes of that upload,
\* and a ContentLength, where the response announces one, of its length.
C14_RoundTrip ==
  (/\ http.pc = "done" /\ http.verb = "GET" /\ http.res.err = "nil"
   /\ http.store.exists /\ http.store.okLen >= 0
   /\ http.store.path = http.path /\ http.store.auth = http.auth)
    => /\ http.res.body = Slice(0, http.store.okLen)
       /\ http.res.size >= 0 => http.res.size = http.store.okLen


\* The key of entry n of a bucket's tree: its names joined with '/', and a
\* trailing '/' for a directory.
KeyOfNode(n) == JoinSlash(n.path) \o (IF n.dir THEN <<"/">> ELSE << >>)

\* A key with a name that holds a version or atomic marker.
Marked(key) == \E i \in 1..Len(key) : key[i] \in VersionNames \cup AtomicNames

\* The entries of the tree request p listed that lie directly in, and
\* anywhere below, the directory its prefix names.
ChildrenListed(p) ==
  {n \in req[p].tree : Parent(n) = Segments(req[p].prefix)}

BelowListed(p) ==
  {n \in req[p].tree : Below(Segments(req[p].prefix), n.path)}

\* A ListObjectsV2 with delimiter del has returned its listing.
ListedV2(p, del) ==
  Done(p, "ListObjectsV2") /\ req[p].res = "OK" /\ req[p].delimiter = del

\* ListObjectsV2 with delimiter "/" lists the entries of `shown` among those
\* directly in the listing directory: directories once each in
\* CommonPrefixes and not in Contents, files in Contents, and nothing else.
SingleLevel(p, shown) ==
  /\ \A n \in shown :
       IF n.dir THEN /\ Count(req[p].prefixes, KeyOfNode(n)) = 1
                     /\ ~InSeq(req[p].contents, KeyOfNode(n))
       ELSE InSeq(req[p].contents, KeyOfNode(n))
  /\ \A i \in 1..Len(req[p].contents) :
       \E n \in shown : ~n.dir /\ KeyOfNode(n) = req[p].contents[i]
  /\ \A i \in 1..Len(req[p].prefixes) :
       \E n \in shown : n.dir /\ KeyOfNode(n) = req[p].prefixes[i]

\* C15, as claimed: with delimiter "/", every directory directly under the
\* listing directory is once in CommonPrefixes and never in Contents, every
\* file directly under it is in Contents, and nothing deeper appears.
C15_SingleLevelOfEveryEntry ==
  \A p \in Procs : ListedV2(p, "/") => SingleLevel(p, ChildrenListed(p))

\* C15, amended: the same of the directories and files directly under the
\* listing directory that are not hidden resources.
C15_SingleLevel ==
  \A p \in Procs :
    ListedV2(p, "/")
      => SingleLevel(p, {n \in ChildrenListed(p) : ~Marked(KeyOfNode(n))})

\* C15 witness: the listing of {a/x, a/y, b} with delimiter "/" is
\* CommonPrefixes = {"a/"}, Contents = {"b"}.
C15_Witness ==
  \E p \in Procs :
    /\ ListedV2(p, "/")
    /\ req[p].prefix = << >>
    /\ req[p].tree = {Node(<<"a">>, TRUE), Node(<<"a", "x">>, FALSE),
                      Node(<<"a", "y">>, FALSE), Node(<<"b">>, FALSE)}
    /\ req[p].prefixes = << <<"a", "/">> >>
    /\ req[p].contents = << <<"b">> >>

\* ListObjectsV2 without delimiter lists the files of `shown`, each once, no
\* directory, and no common prefix.
Recursive(p, shown) ==
  /\ \A n \in shown : ~n.dir => Count(req[p].contents, KeyOfNode(n)) = 1
  /\ \A i \in 1..Len(req[p].contents) :
       \E n \in shown : ~n.dir /\ KeyOfNode(n) = req[p].contents[i]
  /\ req[p].prefixes = << >>

C17_HiddenNeverListed ==
  \A p \in Procs :
    (req[p].pc = "done" /\ req[p].op \in {"ListObjects", "ListObjectsV2"})
      => /\ \A i \in 1..Len(req[p].contents) : ~Marked(req[p].contents[i])
         /\ \A i \in 1..Len(req[p].prefixes) : ~Marked(req[p].prefixes[i])

\* C17 witness: a listing of a directory that holds a version folder and an
\* atomic file has returned other entries of it.
C17_Witness ==
  \E p \in Procs :
    /\ req[p].pc = "done" /\ req[p].res = "OK"
    /\ req[p].op \in {"ListObjects", "ListObjectsV2"}
    /\ req[p].prefix = << >>
    /\ Node(<<".sys.v#.b">>, TRUE) \in req[p].tree
    /\ Node(<<".sys.a#.t">>, FALSE) \in req[p].tree
    /\ req[p].contents # << >>

\* s starts with pre.
StartsWith(s, pre) == Len(s) >= Len(pre) /\ SubSeq(s, 1, Len(pre)) = pre

\* C18: every key and common prefix a listing returns starts with the
\* requested prefix, and a prefix that does not end with '/' is accepted.
C18_PrefixFilters ==
  \A p \in Procs :
    (req[p].pc = "done" /\ req[p].op \in {"ListObjects", "ListObjectsV2"})
      => /\ req[p].res = "OK" =>
              /\ \A i \in 1..Len(req[p].contents) :
                   StartsWith(req[p].contents[i], req[p].prefix)
              /\ \A i \in 1..Len(req[p].prefixes) :
                   StartsWith(req[p].prefixes[i], req[p].prefix)
         /\ req[p].delimiter \in {"", "/"} => req[p].res # "ErrInvalidRequest"

\* The shape ListObjectsV2 refuses: a delimiter other than "/", or a prefix
\* that does not end with '/'.
BadShape(p) ==
  \/ req[p].delimiter \notin {"", "/"}
  \/ req[p].prefix # << >> /\ req[p].prefix[Len(req[p].prefix)] # "/"

Registered == {n \in Names : buckets[n] # NoBucket}

\* C20: ListBuckets gives an admin every registered bucket, and any other
\* caller exactly the registered buckets assigned to the caller's uid, with
\* either driver.
C20_ListBucketsVisibility ==
  \A p \in Procs :
    Done(p, "ListBuckets") =>
      /\ req[p].admin => req[p].res = "OK" /\ req[p].out = Registered
      /\ (~req[p].admin /\ req[p].ctx.ok)
           => /\ req[p].res = "OK"
              /\ req[p].out = Assigned(req[p].ctx.UserID) \cap Registered


\* The entries of the first n pages, one after the other.
RECURSIVE Paged(_)
Paged(n) == IF n = 0 THEN << >> ELSE Paged(n - 1) \o page.pages[n].entries

\* C21: following the tokens over a list with page maximum m gives pages of
\* m buckets each, the last one possibly shorter; the token of a page that
\* is not the last is the name of the last bucket of that page, the last
\* page has the empty token, and the pages together are the list, every
\* bucket once.
C21_PagesOfMax ==
  (page.pc = "paging" /\ page.prefix = << >>) =>
    /\ \A i \in 1..Len(page.pages) :
         LET pg == page.pages[i]
         IN  /\ Len(pg.entries) <= page.max
             /\ pg.token # NoToken
                  => /\ Len(pg.entries) = page.max
                     /\ pg.token = pg.entries[page.max]
    /\ Paged(Len(page.pages)) =
         SubSeq(page.buckets, 1, Len(Paged(Len(page.pages))))
    /\ LastToken = NoToken => Paged(Len(page.pages)) = page.buckets

\* The position in the list at which page i starts: the bucket the token of
\* the page before names, the first bucket for the first page.
PageStart(i) ==
  IF i = 1 THEN 1 ELSE IndexFunc(page.buckets, page.pages[i - 1].token)

\* The buckets of the list that come after the max-1 buckets of page i.
RemainAfter(i) ==
  SubSeq(page.buckets, PageStart(i) + page.max - 1, Len(page.buckets))

Issued(p, rpc) == {c \in req[p].calls : c.rpc = rpc}

\* The request of slot p is a DeleteBucket that has returned after its stat
\* has found a node of the given kind at the backing path.
DeleteFound(p, kind) == Done(p, "DeleteBucket") /\ req[p].kind = kind

\* The DeleteBucket of slot p has issued no rmdir and has left the remote
\* node of the given kind and the registry entry as they were.
DeleteLeftAll(p, kind) ==
  /\ Issued(p, "Rmdir") = {}
  /\ remote[req[p].bucket.Path] = kind
  /\ buckets[req[p].name] = req[p].bucket

\* C23 as stated: DeleteBucket of a bucket whose remote node has children or
\* is not a container returns BucketNotEmpty, issues no rmdir and leaves the
\* remote node and the registry entry unchanged.
C23_NotEmptyContainerIsBucketNotEmpty ==
  \A p \in Procs : \A kind \in {"nonempty", "file"} :
    DeleteFound(p, kind)
      => req[p].res = "ErrBucketNotEmpty" /\ DeleteLeftAll(p, kind)

\* C23: DeleteBucket of a bucket whose remote node is a container with
\* children returns BucketNotEmpty, of one whose remote node is not a
\* container InternalError; in both cases it issues no rmdir and leaves the
\* remote node and the registry entry unchanged.
C23_NotEmptyContainerIsRefused ==
  \A p \in Procs :
    /\ DeleteFound(p, "nonempty")
         => req[p].res = "ErrBucketNotEmpty" /\ DeleteLeftAll(p, "nonempty")
    /\ DeleteFound(p, "file")
         => req[p].res = "ErrInternalError" /\ DeleteLeftAll(p, "file")

\* C23 witness: a DeleteBucket has returned BucketNotEmpty from a bucket with
\* an object in it.
C23_Witness ==
  \E p \in Procs :
    /\ DeleteFound(p, "nonempty")
    /\ req[p].res = "ErrBucketNotEmpty"
    /\ created[req[p].name]


\* The request of slot p has read the object of the given operation and has
\* returned after the remote service answered for a node of the given kind.
ReadFound(p, op, kind) == Done(p, op) /\ req[p].kind = kind

\* C24: HeadObject and GetObject return NoSuchKey when the remote node at
\* the object path is a container or has no file metadata; GetObject returns
\* no body for a container, whether or not the download reported a length.
C24_ContainerIsNoSuchKey ==
  \A p \in Procs : \A op \in {"HeadObject", "GetObject"} :
    \A kind \in {"container", "nofmd"} :
      ReadFound(p, op, kind) => req[p].res = "ErrNoSuchKey"


\* The two drivers.
Drivers == {"memory", "local"}

\* C25: GetBucket and DeleteBucket of a name that has no entry fail with
\* NotFound and leave the registry as it was, with either driver.
C25_AbsentNameIsNotFound ==
  \A d \in Drivers :
    (twin.call.op \in {"GetBucket", "DeleteBucket"} /\ twin.absent[d])
      => twin.res[d].err = "ErrNoSuchBucket" /\ twin.kept[d]

\* The default bucket path of uid in the registry of driver d.
DefaultPathNow(d, uid) ==
  IF d = "memory" THEN InMemory_GetDefaultBucketPath(twin.memory, uid).val
  ELSE Local_GetDefaultBucketPath(twin.local, uid).val

\* C26: after StoreDefaultBucketPath(uid, p) has returned success,
\* GetDefaultBucketPath(uid) returns p and the default path of every other
\* uid is what it was, with either driver.
C26_StoredPathIsRead ==
  \A d \in Drivers :
    (twin.call.op = "StoreDefaultBucketPath" /\ twin.res[d].err = "nil")
      => /\ DefaultPathNow(d, twin.call.uid) = twin.call.path
         /\ \A u \in Uids \ {twin.call.uid} :
              DefaultPathNow(d, u) = twin.before[d][u]

\* C28: every call returns the same error and the same value on a fresh
\* in-memory registry and on a fresh on-disk registry given the same calls.
C28_DriversAgree ==
  twin.call.op # "none" => twin.res["memory"] = twin.res["local"]


\* The request of slot p is a CreateBucket of a known caller that has no
\* default bucket path.
CreateWithoutPath(p) ==
  /\ req[p].op = "CreateBucket"
  /\ req[p].ctx.ok
  /\ GetDefaultBucketPath(req[p].ctx.UserID) = EmptyPath

\* C27: a CreateBucket by a caller whose default bucket path is unset writes
\* no registry entry and issues no remote mkdir at any step, and it returns
\* InvalidQueryParams (a name that is registered already is refused before
\* the path is looked at, with BucketAlreadyExists).
C27_UnsetPathIsInvalidQueryParams ==
  \A p \in Procs :
    CreateWithoutPath(p) =>
      /\ ~req[p].wrote
      /\ Issued(p, "Mkdir") = {}
      /\ req[p].pc = "done" =>
           /\ buckets[req[p].name] = req[p].snap
           /\ req[p].res = IF req[p].snap = NoBucket
                             THEN "ErrInvalidQueryParams"
                             ELSE "ErrBucketAlreadyExists"

\* C27 witness: a CreateBucket of a free name by a known caller of an
\* on-disk registry that holds no default path for the caller has returned
\* InvalidQueryParams.
C27_Witness ==
  \E p \in Procs :
    /\ CreateWithoutPath(p)
    /\ req[p].pc = "done"
    /\ driver = "local"
    /\ req[p].snap = NoBucket
    /\ req[p].res = "ErrInvalidQueryParams"

\* C29: a call that was cancelled while in flight returns a cancellation
\* failure of its own, never the error of a resource that is not there.
C29_CancellationIsNotNotFound ==
  \A p \in Procs :
    (req[p].pc = "done" /\ req[p].cut) => req[p].res = "ErrCanceled"


\* The errors of the registry (meta.ErrNoSuchBucket,
\* meta.ErrBucketAlreadyExisting) and of the metadata client
\* (eos.ErrNoSuchResource), as opposed to the S3 errors of the same meaning.
RawErrors == {"ErrNoSuchBucket", "ErrBucketAlreadyExisting", "ErrNoSuchResource"}

\* C30: no backend operation returns the raw error of the registry (bucket
\* not found, bucket already existing) or of the metadata client (no such
\* resource); what it returns for them is an error of the S3 taxonomy.
C30_NoRawError ==
  \A p \in Procs :
    (req[p].pc = "done" /\ req[p].op \in BackendOps)
      => req[p].res \notin RawErrors


\* C31: every remote call issued while a request is served carries the uid
\* and the gid of the account of that request; a request without an account
\* issues no call at all.
C31_CallsCarryTheCallersIdentity ==
  \A p \in Procs : \A c \in req[p].calls :
    /\ req[p].ctx.ok
    /\ c.Uid = req[p].ctx.UserID
    /\ c.Gid = req[p].ctx.GroupID


\* The step sequences of create-bucket: CreateBucket refused; AssignBucket
\* failed and the entry deleted; Mkdir failed, the assignment removed and
\* the entry deleted; all three done.
CliRuns ==
  [ErrBucketAlreadyExisting |-> <<"CreateBucket">>,
   ErrAssign |-> <<"CreateBucket", "AssignBucket", "DeleteBucket">>,
   ErrRemote |-> <<"CreateBucket", "AssignBucket", "Mkdir", "UnassignBucket",
                   "DeleteBucket">>,
   OK |-> <<"CreateBucket", "AssignBucket", "Mkdir">>]

\* C32: create-bucket runs CreateBucket, AssignBucket, Mkdir in this order;
\* when AssignBucket fails it deletes the entry, when Mkdir fails it removes
\* the assignment and then deletes the entry; it returns the error of the
\* step that failed, and after a failed AssignBucket or Mkdir the name has
\* no registry entry and no assignment.
C32_CreateBucketCmdCompensates ==
  \A p \in Procs :
    Done(p, "create-bucket") =>
      /\ req[p].res \in DOMAIN CliRuns
      /\ req[p].steps = CliRuns[req[p].res]
      /\ req[p].res \in {"ErrAssign", "ErrRemote"} =>
           /\ GetBucket(req[p].name).err = "ErrNoSuchBucket"
           /\ \A u \in Uids : req[p].name \notin Assigned(u)


\* C33: a DeleteBucket that returns an error leaves the registry entry of
\* the name as it found it, and GetBucket still returns that entry; the
\* entry is gone only once the rmdir of its path has been issued and has
\* removed the directory, and then DeleteBucket succeeds.
C33_EntryRemovedAfterRmdir ==
  \A p \in Procs :
    req[p].op = "DeleteBucket" =>
      /\ (req[p].pc = "done" /\ req[p].res # "OK") =>
           /\ buckets[req[p].name] = req[p].snap
           /\ req[p].snap # NoBucket =>
                /\ GetBucket(req[p].name).err = "nil"
                /\ GetBucket(req[p].name).bucket = req[p].snap
      /\ buckets[req[p].name] # req[p].snap =>
           /\ req[p].pc = "done" /\ req[p].res = "OK"
           /\ Issued(p, "Rmdir") # {}
           /\ remote[req[p].snap.Path] = "absent"

\* C33 witness: the rmdir of a registered bucket has failed and DeleteBucket
\* has returned its error.
C33_Witness ==
  \E p \in Procs :
    /\ Done(p, "DeleteBucket")
    /\ req[p].res = "ErrRemote"
    /\ Issued(p, "Rmdir") # {}
    /\ req[p].snap # NoBucket


\* C34: the Contents of a ListObjects result hold no key ending in '/', and
\* hold the key of every file, at any depth under the listing directory,
\* that is not a hidden resource.
C34_V1ListsAsV2 ==
  \A p \in Procs :
    (Done(p, "ListObjects") /\ req[p].res = "OK") =>
      /\ \A i \in 1..Len(req[p].contents) :
           LET key == req[p].contents[i]
           IN  key # << >> => key[Len(key)] # "/"
      /\ \A n \in BelowListed(p) :
           (~n.dir /\ ~Marked(KeyOfNode(n)))
             => InSeq(req[p].contents, KeyOfNode(n))


\* The names assigned to uid and not unassigned since, by the calls made on
\* the two registries.
AssignedSince(uid) == {n \in Names : InSeq(twin.memory.users[uid], n)}

\* C35: ListBucketsByUser(uid) of either driver returns exactly the names
\* that were assigned to uid and not unassigned since, for every uid.
C35_ListsExactlyTheAssigned ==
  \A d \in Drivers :
    twin.call.op = "ListBucketsByUser"
      => /\ twin.res[d].err = "nil"
         /\ twin.res[d].val = AssignedSince(twin.call.uid)


\* C36: while ListDir reads a stream its callback has been handed the
\* entries received so far but the first, in stream order. When it returns,
\* it has read the stream up to its end and returns nil, or up to the
\* failure after k entries and returns the error of the stream; Find was
\* called once and Recv once per entry and once more.
C36_CallbackPerEntryButTheFirst ==
  LET n == IF stream.fail = -1 THEN Len(stream.entries) ELSE stream.fail
  IN  stream.pc \in {"recv", "done"} /\ stream.recvs > 0 =>
        /\ stream.handed = SubSeq(stream.entries, 2, stream.i)
        /\ stream.finds = 1
        /\ stream.pc = "done" =>
             /\ stream.i = n
             /\ stream.recvs = n + 1
             /\ stream.res = IF stream.fail = -1 THEN "nil" ELSE stream.err

\* C36 witness: a stream of three entries has failed after the second, f
\* was called for the second only and the error is returned.
C36_Witness ==
  /\ stream.pc = "done"
  /\ Len(stream.entries) = 3
  /\ stream.fail = 2
  /\ stream.handed = <<stream.entries[2]>>
  /\ stream.res = stream.err
  /\ stream.res \in StreamErrors


\* Goroutine p is inside the lock of the in-memory registry.
MemHolds(p) ==
  \/ p \in mem.readers
  \/ mem.w = p /\ mem.call[p].pc \in {"wbody", "unlock"}

\* C37: on one in-memory registry called by concurrent goroutines, no map is
\* written while another goroutine is inside the lock, a writer is inside
\* alone, a call that has returned holds no lock, and every call returns.
C37_RegistryNeverBlocks ==
  /\ [](/\ ~mem.raced
        /\ \A p, q \in Procs :
             (p # q /\ MemHolds(p) /\ MemHolds(q))
               => (p \in mem.readers /\ q \in mem.readers)
        /\ \A p \in Procs :
             mem.call[p].pc \in {"idle", "done"}
               => (p \notin mem.readers /\ mem.w # p))
  /\ \A p \in Procs :
       (mem.call[p].pc # "idle") ~> (mem.call[p].pc = "done")

\* C37 witness: a writer has announced itself and waits for a reader that
\* is still inside.
C37_Witness ==
  \E p, q \in Procs :
    /\ mem.call[p].pc = "lwait"
    /\ q \in mem.readers
    /\ mem.call[q].pc \in {"rbody", "runlock"}


\* C38: of two pages in a row the second has another token than the first
\* and starts further down the list, so that following the tokens comes to
\* the end of the list, for every page maximum from 1 on.
C38_PagingMovesOn ==
  page.pc = "paging" =>
    \A i \in 1..(Len(page.pages) - 1) :
      /\ page.pages[i + 1].token # page.pages[i].token
      /\ PageStart(i + 1) > PageStart(i)


\* C39: a GetObject that returns an error does not leave the body open that
\* its download has opened.
C39_NoOpenBodyOnError ==
  \A p \in Procs :
    (Done(p, "GetObject") /\ req[p].res # "OK") => req[p].body # "open"

====
